---- MODULE Spec2Model ----
(***************************************************************************)
(* Odds-movement classification, settlement, prediction review and         *)
(* combination selection of the mygoal repository, as state machines.      *)
(*                                                                         *)
(* Conventions of the model                                                *)
(*  - A text value (a handicap token, a price, a score) is a sequence of   *)
(*    one-glyph strings.  The Chinese glyphs are written by an ASCII       *)
(*    gloss: "recv" = U+53D7 (the receiving marker), "level" = U+5E73,     *)
(*    "hand" = U+624B, "half" = U+534A, "ball" = U+7403, "one" = U+4E00,   *)
(*    "two" = U+4E24, "three" = U+4E09, "up" = U+2191 (arrow).             *)
(*  - Python's None is NoneT where a text is expected and NoNum where a    *)
(*    float is expected (a float v is Num(v)); a text field a document     *)
(*    does not hold is AbsentT; a document a collection does not hold is   *)
(*    NoDoc.                                                               *)
(*  - A float is an integer number of thousandths (0.25 is 250, 1.95 is    *)
(*    1950).  The texts of the model carry at most two fractional digits,  *)
(*    so exact values are multiples of 10; the last digit carries the sign *)
(*    of the IEEE-754 rounding error of a subtraction (RoundErr), which    *)
(*    decides a comparison only when the exact difference sits on a        *)
(*    threshold.  Prices and targets of the combination selector are in    *)
(*    hundredths.                                                          *)
(*  - A three-valued flag (True / False / None) is <<TRUE>>, <<FALSE>> or  *)
(*    <<>>.                                                                *)
(***************************************************************************)
EXTENDS Integers, Sequences, FiniteSets, TLC

VARIABLES
    matches,      \* matches collection: match_id -> document
    odds,         \* odds collection: match_id -> document
    predictions,  \* predictions collection: the set of its documents
    clsIn,        \* the fields handed to _calc_asian_movement_label
    clsOut,       \* what it returned ("pending" before the call)
    selIn,        \* a recommendation request and the upcoming matches it reads
    selOut,       \* the answer to it
    setIn,        \* the scores and the line handed to a settlement function
    setOut,       \* what it returned
    parIn,        \* the text handed to a handicap parser or an odds normalizer
    parOut,       \* what it returned
    scIn,         \* the match handed to the pattern scorer
    scOut,        \* the prediction it built
    saving        \* the save_odds calls in flight: caller -> position and arguments

vars ==
    <<matches, odds, predictions, clsIn, clsOut, selIn, selOut, setIn, setOut,
      parIn, parOut, scIn, scOut, saving>>

NoneT == <<"None">>
AbsentT == <<"Absent">>
NoDoc == <<"NoDoc">>
NoNum == <<>>
Num(v) == <<v>>
Val(o) == o[1]

\* The value of an output that has not been produced yet.
Pending == "pending"

(***************************************************************************)
(* Text helpers                                                            *)
(***************************************************************************)
Digits == {"0", "1", "2", "3", "4", "5", "6", "7", "8", "9"}

IsText(x) == x \notin {NoneT, AbsentT}

\* Python truthiness of a text-or-None value: None and '' are falsy.
Truthy(x) == IsText(x) /\ x # <<>>

DigitVal(c) ==
    CASE c = "0" -> 0 [] c = "1" -> 1 [] c = "2" -> 2 [] c = "3" -> 3
      [] c = "4" -> 4 [] c = "5" -> 5 [] c = "6" -> 6 [] c = "7" -> 7
      [] c = "8" -> 8 [] c = "9" -> 9

RECURSIVE DigitsValue(_)
DigitsValue(s) ==
    IF s = <<>> THEN 0
    ELSE 10 * DigitsValue(SubSeq(s, 1, Len(s) - 1)) + DigitVal(s[Len(s)])

AllDigits(s) == \A i \in 1..Len(s) : s[i] \in Digits

\* The value, in thousandths, of the decimal text <int digits>[.<frac digits>].
DecimalValue(ip, fp) ==
    1000 * DigitsValue(ip)
      + (CASE Len(fp) = 0 -> 0
           [] Len(fp) = 1 -> 100 * DigitVal(fp[1])
           [] OTHER -> 100 * DigitVal(fp[1]) + 10 * DigitVal(fp[2]))

\* str.replace(ch, ''): the text without the glyph ch.
Remove(s, ch) == SelectSeq(s, LAMBDA c : c # ch)

Contains(s, ch) == \E i \in 1..Len(s) : s[i] = ch

\* The end of the maximal run of digits of s that starts at i (i - 1 if none).
RECURSIVE DigitRunEnd(_, _)
DigitRunEnd(s, i) ==
    IF i <= Len(s) /\ s[i] \in Digits THEN DigitRunEnd(s, i + 1) ELSE i - 1

\* re.findall(r'\d+\.?\d*', s)[0] as a float, or NoNum when nothing matches.
FirstNumber(s) ==
    IF ~ \E i \in 1..Len(s) : s[i] \in Digits THEN NoNum
    ELSE LET a == CHOOSE i \in 1..Len(s) :
                      /\ s[i] \in Digits
                      /\ \A j \in 1..(i - 1) : s[j] \notin Digits
             b == DigitRunEnd(s, a)
             dot == b + 1 <= Len(s) /\ s[b + 1] = "."
             e == IF dot THEN DigitRunEnd(s, b + 2) ELSE b
         IN  Num(DecimalValue(SubSeq(s, a, b),
                              IF dot THEN SubSeq(s, b + 2, e) ELSE <<>>))

\* float(text): [sign] digits [. digits] or [sign] . digits; anything else raises.
FloatOfText(s) ==
    LET neg == Len(s) > 0 /\ s[1] = "-"
        signed == Len(s) > 0 /\ s[1] \in {"-", "+"}
        body == IF signed THEN SubSeq(s, 2, Len(s)) ELSE s
        dots == {i \in 1..Len(body) : body[i] = "."}
        ip == IF dots = {} THEN body
              ELSE SubSeq(body, 1, (CHOOSE i \in dots : TRUE) - 1)
        fp == IF dots = {} THEN <<>>
              ELSE SubSeq(body, (CHOOSE i \in dots : TRUE) + 1, Len(body))
        ok == /\ Cardinality(dots) <= 1
              /\ AllDigits(ip) /\ AllDigits(fp)
              /\ Len(ip) + Len(fp) > 0
    IN  IF ~ ok THEN NoNum
        ELSE Num(IF neg THEN 0 - DecimalValue(ip, fp) ELSE DecimalValue(ip, fp))

Abs(x) == IF x < 0 THEN 0 - x ELSE x

\* Pairs of values whose double-precision difference is larger in magnitude
\* than the exact one (1.97 - 1.95 = 0.020000000000000018), and pairs whose
\* difference is smaller (1.88 - 1.86 = 0.019999999999999796).
RoundsAway == {{1950, 1970}, {1930, 1950}, {500, 510}}
RoundsToward == {{1860, 1880}}

RoundErr(a, b) ==
    LET sgn == IF a > b THEN 1 ELSE -1
    IN  IF {a, b} \in RoundsAway THEN sgn
        ELSE IF {a, b} \in RoundsToward THEN 0 - sgn
        ELSE 0

\* a - b in double precision.
FloatSub(a, b) == a - b + RoundErr(a, b)

(***************************************************************************)
(* Handicap vocabulary (glyph sequences)                                   *)
(***************************************************************************)
PingShou == <<"level", "hand">>
PingBan == <<"level", "/", "half">>
PingShouBanQiu == <<"level", "hand", "/", "half", "ball">>
BanQiu == <<"half", "ball">>
BanYi == <<"half", "/", "one">>
BanQiuYiQiu == <<"half", "ball", "/", "one", "ball">>
YiQiu == <<"one", "ball">>
YiQiuBan == <<"one", "/", "ball", "half">>
YiQiuQiuBan == <<"one", "ball", "/", "ball", "half">>
QiuBan == <<"ball", "half">>
QiuBanLiang == <<"ball", "half", "/", "two">>
QiuBanLiangQiu == <<"ball", "half", "/", "two", "ball">>
LiangQiu == <<"two", "ball">>
LiangLiangQiuBan == <<"two", "/", "two", "ball", "half">>
LiangQiuBan == <<"two", "ball", "half">>

\* "recv" + T: the receiving-marked variant of the token T.
Recv(t) == <<"recv">> \o t

(***************************************************************************)
(* MongoDBStorage._calc_asian_movement_label                               *)
(***************************************************************************)
\* handicap_map of parse_handicap: <<phrase, value in thousandths>>.
handicap_map ==
    { <<PingShou, 0>>, <<PingBan, 250>>, <<PingShouBanQiu, 250>>,
      <<BanQiu, 500>>, <<BanYi, 750>>, <<BanQiuYiQiu, 750>>,
      <<YiQiu, 1000>>, <<YiQiuBan, 1250>>, <<YiQiuQiuBan, 1250>>,
      <<QiuBan, 1500>>, <<QiuBanLiang, 1750>>, <<QiuBanLiangQiu, 1750>>,
      <<LiangQiu, 2000>>, <<LiangLiangQiuBan, 2250>>, <<LiangQiuBan, 2500>> }

InMap(m, k) == \E e \in m : e[1] = k
Lookup(m, k) == (CHOOSE e \in m : e[1] = k)[2]

\* dict.get(key): None for a key the dict does not hold.
Get(x) == IF x = AbsentT THEN NoneT ELSE x

parse_handicap(h) ==
    IF ~ Truthy(h) THEN NoNum
    ELSE LET clean == Remove(h, "recv")
             is_receiver == Contains(h, "recv")
         IN  IF InMap(handicap_map, clean)
             THEN LET val == Lookup(handicap_map, clean)
                  IN  Num(IF is_receiver THEN 0 - val ELSE val)
             ELSE LET nums == FirstNumber(h)
                  IN  IF nums # NoNum
                      THEN Num(IF is_receiver THEN 0 - Val(nums) ELSE Val(nums))
                      ELSE NoNum

\* A variant of safe_float, float(x or 0): a missing price defaults to 0.
safe_float_or_zero(x) ==
    IF ~ Truthy(x) THEN Num(0) ELSE FloatOfText(x)

\* float(x) inside try/except: None and every text float() rejects give None.
safe_float(x) == IF ~ IsText(x) THEN NoNum ELSE FloatOfText(x)

HandicapThreshold == 10   \* 0.01
WaterThreshold == 20       \* 0.02

LabelNone == "None"
LabelAbsent == "Absent"
Unchanged == "unchanged"            \* '无变化'
LineUpPriceDown == "line-up-price-down"      \* '升盘降水'
LineUpPriceUp == "line-up-price-up"          \* '升盘升水'
LineUp == "line-up"                          \* '升盘'
LineDownPriceDown == "line-down-price-down"  \* '降盘降水'
LineDownPriceUp == "line-down-price-up"      \* '降盘升水'
LineDown == "line-down"                      \* '降盘'
PriceDown == "price-down"                    \* '降水'
PriceUp == "price-up"                        \* '升水'

\* A variant of LabelOfChange: the price change is evaluated before the line
\* change.
LabelOfChange_PriceFirst(handicap_change, water_change) ==
    IF water_change < 0 - WaterThreshold THEN PriceDown
    ELSE IF water_change > WaterThreshold THEN PriceUp
    ELSE IF handicap_change > HandicapThreshold THEN LineUp
    ELSE IF handicap_change < 0 - HandicapThreshold THEN LineDown
    ELSE Unchanged

\* The classification proper (db_storage.py lines 293-321), on the two float
\* differences.
LabelOfChange(handicap_change, water_change) ==
    IF Abs(handicap_change) < HandicapThreshold /\ Abs(water_change) < WaterThreshold
    THEN Unchanged
    ELSE IF handicap_change > HandicapThreshold
    THEN (IF water_change < 0 - WaterThreshold THEN LineUpPriceDown
          ELSE IF water_change > WaterThreshold THEN LineUpPriceUp
          ELSE LineUp)
    ELSE IF handicap_change < 0 - HandicapThreshold
    THEN (IF water_change < 0 - WaterThreshold THEN LineDownPriceDown
          ELSE IF water_change > WaterThreshold THEN LineDownPriceUp
          ELSE LineDown)
    ELSE (IF water_change < 0 - WaterThreshold THEN PriceDown
          ELSE IF water_change > WaterThreshold THEN PriceUp
          ELSE Unchanged)

\* fields: [asian_initial_handicap, asian_current_handicap,
\*          asian_initial_home_odds, asian_current_home_odds], each a text,
\* NoneT or AbsentT.
calc_asian_movement_label(fields) ==
    LET h_init == parse_handicap(Get(fields.asian_initial_handicap))
        h_curr == parse_handicap(Get(fields.asian_current_handicap))
        home_init == safe_float(Get(fields.asian_initial_home_odds))
        home_curr == safe_float(Get(fields.asian_current_home_odds))
    IN  IF h_init = NoNum \/ h_curr = NoNum \/ home_init = NoNum \/ home_curr = NoNum
        THEN LabelNone
        ELSE LabelOfChange(FloatSub(Val(h_curr), Val(h_init)),
                           FloatSub(Val(home_curr), Val(home_init)))

\* A field set that holds none of the four Asian-handicap keys.
IdleFields ==
    [asian_initial_handicap |-> AbsentT, asian_current_handicap |-> AbsentT,
     asian_initial_home_odds |-> AbsentT, asian_current_home_odds |-> AbsentT]

(***************************************************************************)
(* update_labels.py: update_all_labels and its local calc_label            *)
(***************************************************************************)
\* handicap_map of the script's parse_handicap (update_labels.py 17-23).
labels_handicap_map ==
    { <<PingShou, 0>>, <<PingBan, 250>>, <<PingShouBanQiu, 250>>,
      <<BanQiu, 500>>, <<BanYi, 750>>, <<BanQiuYiQiu, 750>>,
      <<YiQiu, 1000>>, <<YiQiuBan, 1250>>, <<YiQiuQiuBan, 1250>>,
      <<QiuBan, 1500>>, <<QiuBanLiang, 1750>>, <<QiuBanLiangQiu, 1750>>,
      <<LiangQiu, 2000>>, <<LiangLiangQiuBan, 2250>>, <<LiangQiuBan, 2500>> }

\* The script's parse_handicap: the map on the text without the receiving
\* mark, else the first unsigned number of the whole text.
labels_parse_handicap(h) ==
    IF ~ Truthy(h) THEN NoNum
    ELSE LET clean == Remove(h, "recv")
             is_receiver == Contains(h, "recv")
         IN  IF InMap(labels_handicap_map, clean)
             THEN (IF is_receiver THEN Num(0 - Lookup(labels_handicap_map, clean))
                   ELSE Num(Lookup(labels_handicap_map, clean)))
             ELSE IF FirstNumber(h) = NoNum THEN NoNum
             ELSE (IF is_receiver THEN Num(0 - Val(FirstNumber(h)))
                   ELSE Num(Val(FirstNumber(h))))

\* The script's safe_float: float(x), None on any exception.
labels_safe_float(x) == IF IsText(x) THEN FloatOfText(x) ELSE NoNum

\* Lines 52-78 of calc_label, with 0.01 and 0.02 in thousandths.
labels_classify(handicap_change, water_change) ==
    IF Abs(handicap_change) < 10 /\ Abs(water_change) < 20 THEN Unchanged
    ELSE IF handicap_change > 10
    THEN (IF water_change < -20 THEN LineUpPriceDown
          ELSE IF water_change > 20 THEN LineUpPriceUp
          ELSE LineUp)
    ELSE IF handicap_change < -10
    THEN (IF water_change < -20 THEN LineDownPriceDown
          ELSE IF water_change > 20 THEN LineDownPriceUp
          ELSE LineDown)
    ELSE (IF water_change < -20 THEN PriceDown
          ELSE IF water_change > 20 THEN PriceUp
          ELSE Unchanged)

\* calc_label comparing the sizes of the two lines, whichever side gives.
calc_label_unsigned(m) ==
    LET h_init == labels_parse_handicap(Get(m.asian_initial_handicap))
        h_curr == labels_parse_handicap(Get(m.asian_current_handicap))
        home_init == labels_safe_float(Get(m.asian_initial_home_odds))
        home_curr == labels_safe_float(Get(m.asian_current_home_odds))
    IN  IF h_init = NoNum \/ h_curr = NoNum \/ home_init = NoNum \/ home_curr = NoNum
        THEN LabelNone
        ELSE labels_classify(FloatSub(Abs(Val(h_curr)), Abs(Val(h_init))),
                             FloatSub(Val(home_curr), Val(home_init)))

\* calc_label(m) on the four asian_* fields of a stored match.
calc_label(m) ==
    LET h_init == labels_parse_handicap(Get(m.asian_initial_handicap))
        h_curr == labels_parse_handicap(Get(m.asian_current_handicap))
        home_init == labels_safe_float(Get(m.asian_initial_home_odds))
        home_curr == labels_safe_float(Get(m.asian_current_home_odds))
    IN  IF h_init = NoNum \/ h_curr = NoNum \/ home_init = NoNum \/ home_curr = NoNum
        THEN LabelNone
        ELSE labels_classify(FloatSub(Val(h_curr), Val(h_init)),
                             FloatSub(Val(home_curr), Val(home_init)))

(***************************************************************************)
(* MongoDBStorage: the matches and odds collections                        *)
(*                                                                         *)
(* A match document is a record                                            *)
(*   [status, home_score, away_score,                                      *)
(*    asian_initial_handicap, asian_current_handicap,                      *)
(*    asian_initial_home_odds, asian_current_home_odds,                    *)
(*    ou_initial_total, ou_current_total, asian_movement_label]            *)
(* whose text fields are AbsentT and whose label is LabelAbsent while the  *)
(* document does not hold them.  A collection with a unique match_id index *)
(* is a function from the ids it holds to their documents.                 *)
(***************************************************************************)
Has(coll, mid) == mid \in DOMAIN coll

\* update_one(..., {'$set': ...}, upsert=True) on a collection keyed by match_id.
Upsert(coll, mid, doc) ==
    [i \in (DOMAIN coll) \cup {mid} |-> IF i = mid THEN doc ELSE coll[i]]

\* '$set' of one text field: a key the update does not carry keeps its value.
SetText(old, new) == IF new = AbsentT THEN old ELSE new

AsianOf(doc) ==
    [asian_initial_handicap |-> doc.asian_initial_handicap,
     asian_current_handicap |-> doc.asian_current_handicap,
     asian_initial_home_odds |-> doc.asian_initial_home_odds,
     asian_current_home_odds |-> doc.asian_current_home_odds]

\* save_match(match_data): '$set' of every key of match_data, upsert.
\* match_data carries status, home_score and away_score, and the asian_* / ou_*
\* keys when _map_odds_details has mapped that market onto it.
save_match(coll, mid, match_data) ==
    LET old == IF Has(coll, mid) THEN coll[mid]
               ELSE [status |-> match_data.status,
                     home_score |-> AbsentT, away_score |-> AbsentT,
                     asian_initial_handicap |-> AbsentT,
                     asian_current_handicap |-> AbsentT,
                     asian_initial_home_odds |-> AbsentT,
                     asian_current_home_odds |-> AbsentT,
                     ou_initial_total |-> AbsentT, ou_current_total |-> AbsentT,
                     asian_movement_label |-> LabelAbsent]
        new == [status |-> match_data.status,
                home_score |-> SetText(old.home_score, match_data.home_score),
                away_score |-> SetText(old.away_score, match_data.away_score),
                asian_initial_handicap |->
                    SetText(old.asian_initial_handicap, match_data.asian_initial_handicap),
                asian_current_handicap |->
                    SetText(old.asian_current_handicap, match_data.asian_current_handicap),
                asian_initial_home_odds |->
                    SetText(old.asian_initial_home_odds, match_data.asian_initial_home_odds),
                asian_current_home_odds |->
                    SetText(old.asian_current_home_odds, match_data.asian_current_home_odds),
                ou_initial_total |-> SetText(old.ou_initial_total, match_data.ou_initial_total),
                ou_current_total |-> SetText(old.ou_current_total, match_data.ou_current_total),
                asian_movement_label |-> old.asian_movement_label]
    IN  Upsert(coll, mid, new)

\* dict.get(key, ''): '' for a key the dict does not hold.
GetOrEmpty(x) == IF x = AbsentT THEN <<>> ELSE x

\* update_fields that carries '' for the asian_* keys of an empty market.
AsianUpdateFields_blank(odds_data) ==
    IF Len(odds_data.asian_handicap) > 0
    THEN LET asian == odds_data.asian_handicap[1]
         IN  [asian_initial_handicap |-> GetOrEmpty(asian.initial_handicap),
              asian_current_handicap |-> GetOrEmpty(asian.current_handicap),
              asian_initial_home_odds |-> GetOrEmpty(asian.initial_home_odds),
              asian_current_home_odds |-> GetOrEmpty(asian.current_home_odds)]
    ELSE [asian_initial_handicap |-> <<>>, asian_current_handicap |-> <<>>,
          asian_initial_home_odds |-> <<>>, asian_current_home_odds |-> <<>>]

\* The asian_* entries of update_fields: odds_data.asian_handicap is a list of
\* dicts, and only a non-empty list contributes (its first dict).
AsianUpdateFields(odds_data) ==
    IF Len(odds_data.asian_handicap) > 0
    THEN LET asian == odds_data.asian_handicap[1]
         IN  [asian_initial_handicap |-> GetOrEmpty(asian.initial_handicap),
              asian_current_handicap |-> GetOrEmpty(asian.current_handicap),
              asian_initial_home_odds |-> GetOrEmpty(asian.initial_home_odds),
              asian_current_home_odds |-> GetOrEmpty(asian.current_home_odds)]
    ELSE IdleFields

\* The ou_* entries of update_fields, from the first dict of odds_data.over_under.
OuUpdateFields(odds_data) ==
    IF Len(odds_data.over_under) > 0
    THEN LET ou == odds_data.over_under[1]
         IN  [ou_initial_total |-> GetOrEmpty(ou.initial_total),
              ou_current_total |-> GetOrEmpty(ou.current_total)]
    ELSE [ou_initial_total |-> AbsentT, ou_current_total |-> AbsentT]

\* _update_match_odds with the label computed from the stored document
\* instead of from update_fields.
update_match_odds_stored_label(coll, mid, odds_data) ==
    IF ~ Has(coll, mid) THEN coll
    ELSE LET update_fields == AsianUpdateFields(odds_data)
             ou_fields == OuUpdateFields(odds_data)
             old == coll[mid]
             asian_label == calc_asian_movement_label(AsianOf(old))
             new == [old EXCEPT
                 !.asian_initial_handicap = SetText(@, update_fields.asian_initial_handicap),
                 !.asian_current_handicap = SetText(@, update_fields.asian_current_handicap),
                 !.asian_initial_home_odds = SetText(@, update_fields.asian_initial_home_odds),
                 !.asian_current_home_odds = SetText(@, update_fields.asian_current_home_odds),
                 !.ou_initial_total = SetText(@, ou_fields.ou_initial_total),
                 !.ou_current_total = SetText(@, ou_fields.ou_current_total),
                 !.asian_movement_label =
                     IF asian_label # LabelNone THEN asian_label ELSE @]
         IN  [coll EXCEPT ![mid] = new]

\* _update_match_odds: '$set' of update_fields WITHOUT upsert; the label is part
\* of update_fields only when the classifier returned one.
update_match_odds(coll, mid, odds_data) ==
    IF ~ Has(coll, mid) THEN coll
    ELSE LET update_fields == AsianUpdateFields(odds_data)
             ou_fields == OuUpdateFields(odds_data)
             asian_label == calc_asian_movement_label(update_fields)
             old == coll[mid]
             new == [old EXCEPT
                 !.asian_initial_handicap = SetText(@, update_fields.asian_initial_handicap),
                 !.asian_current_handicap = SetText(@, update_fields.asian_current_handicap),
                 !.asian_initial_home_odds = SetText(@, update_fields.asian_initial_home_odds),
                 !.asian_current_home_odds = SetText(@, update_fields.asian_current_home_odds),
                 !.ou_initial_total = SetText(@, ou_fields.ou_initial_total),
                 !.ou_current_total = SetText(@, ou_fields.ou_current_total),
                 !.asian_movement_label =
                     IF asian_label # LabelNone THEN asian_label ELSE @]
         IN  [coll EXCEPT ![mid] = new]

\* The odds collection's half of save_odds: upsert of {match_id, odds_data}.
save_odds_doc(coll, mid, odds_data) == Upsert(coll, mid, odds_data)

(***************************************************************************)
(* Predictions: PredictionEngine.predict_match, save_prediction,           *)
(* PredictionReviewer                                                      *)
(*                                                                         *)
(* A prediction document is a record                                       *)
(*   [match_id, win_prediction, asian_prediction, asian_handicap,          *)
(*    ou_prediction, ou_total, predicted_home_score, predicted_away_score, *)
(*    is_reviewed, review]                                                 *)
(* where review is <<>> while no review_result has been written and        *)
(* <<review_result>> afterwards.  The predictions collection is the set of *)
(* its documents.  A three-valued flag (True / False / None) is <<TRUE>>,  *)
(* <<FALSE>> or <<>>.                                                      *)
(***************************************************************************)
TriNone == <<>>
Tri(b) == <<b>>

\* a or b on text-or-None values.
Or(a, b) == IF Truthy(a) THEN a ELSE b

\* PredictionEngine._safe_float: float(value) if value else None.
engine_safe_float(value) == IF ~ Truthy(value) THEN NoNum ELSE FloatOfText(value)

\* PredictionEngine.predict_match: the lines and the picks of one prediction.
\* picks = [win, asian, ou, home, away] are what _predict_winner,
\* _predict_asian_handicap, _predict_over_under and _predict_score derive from
\* prices and team form.
predict_match(mid, match, picks) ==
    [match_id |-> mid,
     win_prediction |-> picks.win,
     asian_prediction |-> picks.asian,
     asian_handicap |->
         Or(Get(match.asian_current_handicap), Get(match.asian_initial_handicap)),
     ou_prediction |-> picks.ou,
     ou_total |->
         engine_safe_float(Or(Get(match.ou_current_total), Get(match.ou_initial_total))),
     predicted_home_score |-> picks.home,
     predicted_away_score |-> picks.away]

PredsOf(coll, mid) == {d \in coll : d.match_id = mid}

\* An insert_one in place of the upsert: every save adds a document.
save_prediction_insert(coll, prediction_data) ==
    coll \cup {[match_id |-> prediction_data.match_id,
                win_prediction |-> prediction_data.win_prediction,
                asian_prediction |-> prediction_data.asian_prediction,
                asian_handicap |-> prediction_data.asian_handicap,
                ou_prediction |-> prediction_data.ou_prediction,
                ou_total |-> prediction_data.ou_total,
                predicted_home_score |-> prediction_data.predicted_home_score,
                predicted_away_score |-> prediction_data.predicted_away_score,
                is_reviewed |-> FALSE,
                review |-> <<>>]}

\* save_prediction: is_reviewed = False is added to prediction_data, then
\* '$set' of prediction_data with upsert.  Keys prediction_data does not carry
\* (a stored review_result) keep their values.
save_prediction(coll, prediction_data) ==
    LET mid == prediction_data.match_id
        fresh(review) ==
            [match_id |-> mid,
             win_prediction |-> prediction_data.win_prediction,
             asian_prediction |-> prediction_data.asian_prediction,
             asian_handicap |-> prediction_data.asian_handicap,
             ou_prediction |-> prediction_data.ou_prediction,
             ou_total |-> prediction_data.ou_total,
             predicted_home_score |-> prediction_data.predicted_home_score,
             predicted_away_score |-> prediction_data.predicted_away_score,
             is_reviewed |-> FALSE,
             review |-> review]
    IN  IF PredsOf(coll, mid) = {} THEN coll \cup {fresh(<<>>)}
        ELSE LET old == CHOOSE d \in PredsOf(coll, mid) : TRUE
             IN  (coll \ {old}) \cup {fresh(old.review)}

\* update_prediction_review: '$set' of review_data and is_reviewed = True on the
\* document of match_id (no upsert).
update_prediction_review(coll, mid, review_data) ==
    IF PredsOf(coll, mid) = {} THEN coll
    ELSE LET old == CHOOSE d \in PredsOf(coll, mid) : TRUE
         IN  (coll \ {old}) \cup
                 {[old EXCEPT !.is_reviewed = TRUE, !.review = <<review_data>>]}

\* int(text): [sign] digits; anything else raises ValueError.
IntOfText(s) ==
    LET signed == Len(s) > 0 /\ s[1] \in {"-", "+"}
        body == IF signed THEN SubSeq(s, 2, Len(s)) ELSE s
    IN  IF Len(body) = 0 \/ ~ AllDigits(body) THEN NoNum
        ELSE Num(IF s[1] = "-" THEN 0 - DigitsValue(body) ELSE DigitsValue(body))

\* PredictionReviewer._parse_handicap.
review_parse_handicap(handicap_str) ==
    IF ~ Truthy(handicap_str) THEN NoNum
    ELSE LET is_receiver == Contains(handicap_str, "recv")
             clean_str == Remove(handicap_str, "recv")
             value ==
                 CASE clean_str = PingShou -> Num(0)
                   [] clean_str \in {PingBan, PingShouBanQiu} -> Num(250)
                   [] clean_str = BanQiu -> Num(500)
                   [] clean_str \in {BanYi, BanQiuYiQiu} -> Num(750)
                   [] clean_str = YiQiu -> Num(1000)
                   [] clean_str \in {YiQiuBan, YiQiuQiuBan} -> Num(1250)
                   [] clean_str = QiuBan -> Num(1500)
                   [] clean_str \in {QiuBanLiang, QiuBanLiangQiu} -> Num(1750)
                   [] clean_str = LiangQiu -> Num(2000)
                   [] OTHER -> FloatOfText(clean_str)
         IN  IF value = NoNum THEN NoNum
             ELSE Num(IF is_receiver THEN 0 - Val(value) ELSE Val(value))

\* PredictionReviewer._get_actual_winner.
get_actual_winner(home_score, away_score) ==
    IF home_score > away_score THEN "home"
    ELSE IF home_score < away_score THEN "away"
    ELSE "draw"

\* PredictionReviewer._check_asian_handicap (scores are ints, the handicap a
\* float in thousandths).  A push returns False.
check_asian_handicap(home_score, away_score, prediction, handicap) ==
    IF prediction = "None" \/ ~ Truthy(handicap) THEN FALSE
    ELSE LET handicap_value == review_parse_handicap(handicap)
         IN  IF handicap_value = NoNum THEN FALSE
             ELSE LET adjusted_home_score == 1000 * home_score + Val(handicap_value)
                  IN  IF adjusted_home_score > 1000 * away_score
                      THEN prediction = "home"
                      ELSE IF adjusted_home_score < 1000 * away_score
                      THEN prediction = "away"
                      ELSE FALSE

\* PredictionReviewer._check_over_under (total is the stored float or None).
\* A push returns False.
check_over_under(home_score, away_score, prediction, total) ==
    IF prediction = "None" \/ total = NoNum \/ total = Num(0) THEN FALSE
    ELSE LET actual_total == 1000 * (home_score + away_score)
         IN  IF actual_total > Val(total) THEN prediction = "over"
             ELSE IF actual_total < Val(total) THEN prediction = "under"
             ELSE FALSE

CountTrue(flags) == Cardinality({i \in 1..Len(flags) : flags[i] = Tri(TRUE)})
CountValid(flags) == Cardinality({i \in 1..Len(flags) : flags[i] # TriNone})
OrFalse(flag) == IF flag = TriNone THEN FALSE ELSE Val(flag)

\* The review_result review_match builds for a prediction and a finished match
\* with integer scores, or <<>> when no sub-market can be graded.  The
\* predictions collection holds no manual_* keys, so each
\* prediction.get('manual_...') or prediction.get('...') is the automatic value.
\* accuracy is in thousandths of a percent.
review_result(prediction, home_score, away_score) ==
    LET actual_winner == get_actual_winner(home_score, away_score)
        win_prediction == prediction.win_prediction
        win_correct == IF win_prediction # "None"
                       THEN Tri(win_prediction = actual_winner) ELSE TriNone
        asian_prediction == prediction.asian_prediction
        asian_correct ==
            IF asian_prediction # "None"
            THEN Tri(check_asian_handicap(home_score, away_score, asian_prediction,
                                          prediction.asian_handicap))
            ELSE TriNone
        ou_prediction == prediction.ou_prediction
        ou_correct ==
            IF ou_prediction # "None"
            THEN Tri(check_over_under(home_score, away_score, ou_prediction,
                                      prediction.ou_total))
            ELSE TriNone
        score_correct ==
            Tri(prediction.predicted_home_score = home_score
                /\ prediction.predicted_away_score = away_score)
        predictions_made == <<win_correct, asian_correct, ou_correct, score_correct>>
        correct_count == CountTrue(predictions_made)
        total_predictions == CountValid(predictions_made)
    IN  IF total_predictions = 0 THEN <<>>
        ELSE <<[actual_home_score |-> home_score,
                actual_away_score |-> away_score,
                actual_winner |-> actual_winner,
                win_correct |-> OrFalse(win_correct),
                asian_correct |-> OrFalse(asian_correct),
                ou_correct |-> OrFalse(ou_correct),
                score_correct |-> OrFalse(score_correct),
                accuracy |-> (100000 * correct_count) \div total_predictions,
                correct_count |-> correct_count,
                total_predictions |-> total_predictions]>>

\* review_match without its status test (prediction_review.py line 41).
review_match_any_status(preds, ms, mid) ==
    IF PredsOf(preds, mid) = {} THEN preds
    ELSE IF ~ Has(ms, mid) THEN preds
    ELSE LET prediction == CHOOSE d \in PredsOf(preds, mid) : TRUE
             home_score == Get(ms[mid].home_score)
             away_score == Get(ms[mid].away_score)
         IN  IF \/ ~ Truthy(home_score) \/ ~ Truthy(away_score)
                \/ home_score = <<"-">> \/ away_score = <<"-">>
             THEN preds
             ELSE IF IntOfText(home_score) = NoNum \/ IntOfText(away_score) = NoNum
             THEN preds
             ELSE LET result == review_result(prediction,
                                              Val(IntOfText(home_score)),
                                              Val(IntOfText(away_score)))
                  IN  IF result = <<>> THEN preds
                      ELSE update_prediction_review(preds, mid, result[1])

\* PredictionReviewer.review_match: the predictions collection after the call.
review_match(preds, ms, mid) ==
    IF PredsOf(preds, mid) = {} THEN preds
    ELSE IF ~ Has(ms, mid) THEN preds
    ELSE IF ms[mid].status # 2 THEN preds
    ELSE LET prediction == CHOOSE d \in PredsOf(preds, mid) : TRUE
             home_score == Get(ms[mid].home_score)
             away_score == Get(ms[mid].away_score)
         IN  IF \/ ~ Truthy(home_score) \/ ~ Truthy(away_score)
                \/ home_score = <<"-">> \/ away_score = <<"-">>
             THEN preds
             ELSE IF IntOfText(home_score) = NoNum \/ IntOfText(away_score) = NoNum
             THEN preds
             ELSE LET result == review_result(prediction,
                                              Val(IntOfText(home_score)),
                                              Val(IntOfText(away_score)))
                  IN  IF result = <<>> THEN preds
                      ELSE update_prediction_review(preds, mid, result[1])

\* PredictionReviewer.review_all_finished_matches: review_match for every
\* unreviewed prediction whose match is finished.  Each call touches only the
\* document of its own match_id, so the loop order does not matter.
RECURSIVE review_each(_, _, _)
review_each(preds, ms, mids) ==
    IF mids = {} THEN preds
    ELSE LET mid == CHOOSE m \in mids : TRUE
         IN  review_each(review_match(preds, ms, mid), ms, mids \ {mid})

review_all_finished_matches(preds, ms) ==
    LET unreviewed == {d \in preds : d.is_reviewed = FALSE}
        todo == {d.match_id : d \in {u \in unreviewed :
                     Has(ms, u.match_id) /\ ms[u.match_id].status = 2}}
    IN  review_each(preds, ms, todo)

(***************************************************************************)
(* Combination selector: /api/recommend (web_app.get_recommend) and the    *)
(* scripts recommend_high_odds.py / recommend_full_analysis.py             *)
(*                                                                         *)
(* Prices and targets are floats in hundredths.  The prices the            *)
(* specifications draw are multiples of 0.25, for which the products and   *)
(* differences the code computes in double precision are exact, so a       *)
(* product of n prices is kept as an integer in units of 100^-n.           *)
(* An upcoming match is a record                                           *)
(*   [match_id, win_odds, lose_odds, ou_over, ou_line,                     *)
(*    win_form, lose_form, big_form]                                       *)
(* whose prices are float(m.get(...) or 0) and whose *_form flags are the  *)
(* outcomes of the team_stats rate tests of the three picks.               *)
(***************************************************************************)
Min(a, b) == IF a < b THEN a ELSE b
Max(a, b) == IF a > b THEN a ELSE b

RECURSIVE Pow100(_)
Pow100(k) == IF k = 0 THEN 1 ELSE 100 * Pow100(k - 1)

HomeWin == "home_win"
AwayWin == "away_win"
Over == "over"

Candidate(m, type, price) == [match_id |-> m.match_id, type |-> type, odds |-> price]

\* get_recommend, the body of 'for m in upcoming_matches': the candidates one
\* match contributes, in the order they are appended.
web_candidates_of(m) ==
    LET real_ou_odds == m.ou_over + 100
    IN  (IF 150 <= m.win_odds /\ m.win_odds <= 200 /\ m.win_form
         THEN <<Candidate(m, HomeWin, m.win_odds)>> ELSE <<>>)
        \o (IF 150 <= m.lose_odds /\ m.lose_odds <= 200 /\ m.lose_form
            THEN <<Candidate(m, AwayWin, m.lose_odds)>> ELSE <<>>)
        \o (IF /\ 170 <= real_ou_odds /\ real_ou_odds <= 200 /\ m.ou_line >= 250
               /\ (m.big_form \/ m.ou_line >= 300)
            THEN <<Candidate(m, Over, real_ou_odds)>> ELSE <<>>)

\* recommend_high_odds.py, the body of 'for m in upcoming_matches'.
script_candidates_of(m) ==
    LET real_ou_odds == m.ou_over + 100
    IN  (IF 165 <= m.win_odds /\ m.win_odds <= 195
         THEN <<Candidate(m, HomeWin, m.win_odds)>>
         ELSE IF 165 <= m.lose_odds /\ m.lose_odds <= 195
         THEN <<Candidate(m, AwayWin, m.lose_odds)>> ELSE <<>>)
        \o (IF 170 <= real_ou_odds /\ real_ou_odds <= 200 /\ m.ou_line >= 250
            THEN <<Candidate(m, Over, real_ou_odds)>> ELSE <<>>)

RECURSIVE web_candidates(_)
web_candidates(upcoming) ==
    IF upcoming = <<>> THEN <<>>
    ELSE web_candidates(SubSeq(upcoming, 1, Len(upcoming) - 1))
           \o web_candidates_of(upcoming[Len(upcoming)])

RECURSIVE script_candidates(_)
script_candidates(upcoming) ==
    IF upcoming = <<>> THEN <<>>
    ELSE script_candidates(SubSeq(upcoming, 1, Len(upcoming) - 1))
           \o script_candidates_of(upcoming[Len(upcoming)])

\* Each element of combos with x put in front.
RECURSIVE PrefixAll(_, _)
PrefixAll(x, combos) ==
    IF combos = <<>> THEN <<>>
    ELSE <<(<<x>> \o Head(combos))>> \o PrefixAll(x, Tail(combos))

\* itertools.combinations(range(lo, hi + 1), n): the n-tuples of increasing
\* positions, in lexicographic order.
RECURSIVE combinations(_, _, _)
combinations(lo, hi, n) ==
    IF n = 0 THEN << <<>> >>
    ELSE IF hi - lo + 1 < n THEN <<>>
    ELSE PrefixAll(lo, combinations(lo + 1, hi, n - 1)) \o combinations(lo + 1, hi, n)

\* total_odds = 1.0; for c in combo: total_odds *= c['odds'].
RECURSIVE total_odds_of(_, _)
total_odds_of(candidates, combo) ==
    IF combo = <<>> THEN 1
    ELSE total_odds_of(candidates, SubSeq(combo, 1, Len(combo) - 1))
           * candidates[combo[Len(combo)]].odds

\* A variant of distinct_match_ids that lets two legs share a match.
duplicate_match_ids_allowed(candidates, combo) == TRUE

\* len(match_ids) == len(set(match_ids)).
distinct_match_ids(candidates, combo) ==
    Len(combo) = Cardinality({candidates[combo[i]].match_id : i \in 1..Len(combo)})

\* abs(total_odds - target_odds) for a product of n prices, in units of 100^-n.
diff_of(total_odds, target_odds, n) == Abs(total_odds - target_odds * Pow100(n - 1))

\* A variant of closer under which a later combination at the same distance
\* replaces an earlier one.
closer_or_equal(diff, min_diff) == diff <= min_diff

\* diff < min_diff.
closer(diff, min_diff) == diff < min_diff

\* get_recommend, 'for combo in itertools.combinations(candidates, n)': the
\* best_combo after the combinations from position i on have been visited.
RECURSIVE web_scan(_, _, _, _, _, _, _)
web_scan(candidates, combos, i, n, target_odds, best_combo, min_diff) ==
    IF i > Len(combos) THEN best_combo
    ELSE LET combo == combos[i]
             diff == diff_of(total_odds_of(candidates, combo), target_odds, n)
         IN  IF ~ distinct_match_ids(candidates, combo)
             THEN web_scan(candidates, combos, i + 1, n, target_odds, best_combo, min_diff)
             ELSE IF closer(diff, min_diff)
             THEN web_scan(candidates, combos, i + 1, n, target_odds, combo, diff)
             ELSE web_scan(candidates, combos, i + 1, n, target_odds, best_combo, min_diff)

\* The scripts' loop: n = 2, target 3.0, and a combination is taken only if
\* 2.8 <= total_odds <= 3.5.
RECURSIVE script_scan(_, _, _, _, _)
script_scan(candidates, combos, i, best_combo, min_diff) ==
    IF i > Len(combos) THEN best_combo
    ELSE LET combo == combos[i]
             total_odds == total_odds_of(candidates, combo)
             diff == diff_of(total_odds, 300, 2)
         IN  IF candidates[combo[1]].match_id = candidates[combo[2]].match_id
             THEN script_scan(candidates, combos, i + 1, best_combo, min_diff)
             ELSE IF 28000 <= total_odds /\ total_odds <= 35000 /\ diff < min_diff
             THEN script_scan(candidates, combos, i + 1, combo, diff)
             ELSE script_scan(candidates, combos, i + 1, best_combo, min_diff)

Selections(candidates, combo) == [i \in 1..Len(combo) |-> candidates[combo[i]]]

\* get_recommend: the answer to a request (n, target_odds) over the upcoming
\* matches.  n and target_odds are clamped to 2..5 and 2.0..10.0.
get_recommend(request) ==
    LET n == Max(2, Min(5, request.n))
        target_odds == Max(200, Min(1000, request.target_odds))
        candidates == web_candidates(request.upcoming)
        answer(status, combo) ==
            [by |-> "web", status |-> status, n |-> n, target_odds |-> target_odds,
             combo |-> combo]
    IN  IF request.upcoming = <<>> THEN answer("no_upcoming", <<>>)
        ELSE IF Len(candidates) < n THEN answer("too_few", <<>>)
        ELSE LET best_combo ==
                     web_scan(candidates, combinations(1, Len(candidates), n), 1,
                              n, target_odds, <<>>, 999 * Pow100(n))
             IN  IF best_combo = <<>> THEN answer("not_found", <<>>)
                 ELSE answer("ok", Selections(candidates, best_combo))

\* recommend_high_odds_2chuan1 / recommend_with_full_analysis.
recommend_high_odds_2chuan1(request) ==
    LET candidates == script_candidates(request.upcoming)
        answer(status, combo) ==
            [by |-> "script", status |-> status, n |-> 2, target_odds |-> 300,
             combo |-> combo]
    IN  IF request.upcoming = <<>> THEN answer("no_upcoming", <<>>)
        ELSE IF Len(candidates) < 2 THEN answer("too_few", <<>>)
        ELSE LET best_combo ==
                     script_scan(candidates, combinations(1, Len(candidates), 2), 1,
                                 <<>>, 999 * Pow100(2))
             IN  IF best_combo = <<>> THEN answer("not_found", <<>>)
                 ELSE answer("ok", Selections(candidates, best_combo))

(***************************************************************************)
(* Settlement: filter_lower_plate_wins.py, analyze_odds_patterns.py,       *)
(* web_app._check_leg_result                                               *)
(*                                                                         *)
(* A result is a sequence: <<label>>, <<"None">> for None.                 *)
(***************************************************************************)
UpperWins == "upper_wins"    \* '上盘赢'
LowerWins == "lower_wins"    \* '下盘赢'
Push == "push"               \* '走盘'

\* A settlement that takes the home side as the upper side whatever the sign
\* of the handicap.
calc_handicap_result_home_upper(home_score, away_score, hi_handicap) ==
    LET adjusted_diff == 1000 * home_score + hi_handicap - 1000 * away_score
    IN  IF adjusted_diff > 0 THEN <<UpperWins, FALSE, "home", "away">>
        ELSE IF adjusted_diff < 0 THEN <<LowerWins, TRUE, "home", "away">>
        ELSE <<Push, FALSE, "home", "away">>

\* calc_handicap_result(home_score, away_score, hi_handicap): integer scores,
\* hi_handicap a float in thousandths; the tuple
\* (result, is_lower_win, upper_pos, lower_pos).
calc_handicap_result(home_score, away_score, hi_handicap) ==
    LET home_upper == hi_handicap < 0
        adjusted_diff ==
            IF home_upper
            THEN 1000 * home_score + hi_handicap - 1000 * away_score
            ELSE 1000 * away_score + (0 - hi_handicap) - 1000 * home_score
        upper_pos == IF home_upper THEN "home" ELSE "away"
        lower_pos == IF home_upper THEN "away" ELSE "home"
    IN  IF adjusted_diff > 0 THEN <<UpperWins, FALSE, upper_pos, lower_pos>>
        ELSE IF adjusted_diff < 0 THEN <<LowerWins, TRUE, upper_pos, lower_pos>>
        ELSE <<Push, FALSE, upper_pos, lower_pos>>

\* filter_lower_plate_wins.safe_float: float(value) if value else None.
lower_safe_float(value) == IF ~ Truthy(value) THEN NoNum ELSE FloatOfText(value)

\* filter_lower_plate_wins.safe_int: int(value) if value else 0, 0 on error.
safe_int(value) ==
    IF ~ Truthy(value) THEN 0
    ELSE IF IntOfText(value) = NoNum THEN 0
    ELSE Val(IntOfText(value))

\* filter_lower_wins, the body of 'for m in finished' for one finished match:
\* <<"skipped">> when the match has no usable handicap, else the settlement of
\* its line (the match is listed when the result is LowerWins).
filter_lower_wins(m) ==
    LET hi_handicap == lower_safe_float(Get(m.line))
    IN  IF hi_handicap = NoNum \/ hi_handicap = Num(0) THEN <<"skipped">>
        ELSE LET home_score == safe_int(Get(m.home_score))
                 away_score == safe_int(Get(m.away_score))
             IN  <<calc_handicap_result(home_score, away_score, Val(hi_handicap))[1]>>

LiangQiuBanSan == <<"two", "ball", "half", "/", "three">>
SanQiu == <<"three", "ball">>

\* handicap_map of analyze_odds_patterns.parse_handicap.
analyze_handicap_map ==
    handicap_map \cup { <<LiangQiuBanSan, 2750>>, <<SanQiu, 3000>> }

\* analyze_odds_patterns.parse_handicap.
analyze_parse_handicap(handicap_str) ==
    IF ~ Truthy(handicap_str) THEN NoNum
    ELSE LET is_receiver == Contains(handicap_str, "recv")
             clean_str == Remove(handicap_str, "recv")
             value == IF InMap(analyze_handicap_map, clean_str)
                      THEN Num(Lookup(analyze_handicap_map, clean_str))
                      ELSE FirstNumber(clean_str)
         IN  IF value = NoNum THEN NoNum
             ELSE Num(IF is_receiver THEN 0 - Val(value) ELSE Val(value))

\* get_asian_result(home_score, away_score, handicap_str); any exception
\* gives None.
get_asian_result(home_score, away_score, handicap_str) ==
    IF ~ IsText(home_score) \/ ~ IsText(away_score) THEN NoneT
    ELSE IF IntOfText(home_score) = NoNum \/ IntOfText(away_score) = NoNum THEN NoneT
    ELSE LET home == 1000 * Val(IntOfText(home_score))
             away == 1000 * Val(IntOfText(away_score))
             handicap == analyze_parse_handicap(handicap_str)
         IN  IF handicap = NoNum THEN NoneT
             ELSE LET adjusted_diff ==
                          IF Contains(handicap_str, "recv")
                          THEN home + Abs(Val(handicap)) - away
                          ELSE home - Val(handicap) - away
                  IN  IF adjusted_diff > 0 THEN <<"home">>
                      ELSE IF adjusted_diff < 0 THEN <<"away">>
                      ELSE <<Push>>

\* get_ou_result(home_score, away_score, total_line).
get_ou_result(home_score, away_score, total_line) ==
    IF ~ IsText(home_score) \/ ~ IsText(away_score) \/ ~ IsText(total_line) THEN NoneT
    ELSE IF \/ IntOfText(home_score) = NoNum \/ IntOfText(away_score) = NoNum
            \/ FloatOfText(total_line) = NoNum
    THEN NoneT
    ELSE LET actual_total ==
                 1000 * (Val(IntOfText(home_score)) + Val(IntOfText(away_score)))
             total == Val(FloatOfText(total_line))
         IN  IF actual_total > total THEN <<"over">>
             ELSE IF actual_total < total THEN <<"under">>
             ELSE <<Push>>

\* _check_leg_result(match, opt, item_handicap) for the 1X2 and the handicap
\* options; match carries home_score, away_score and hi_handicap_value (line).
check_leg_result(match, opt, item_handicap) ==
    IF \/ ~ IsText(match.home_score) \/ ~ IsText(match.away_score)
       \/ IntOfText(match.home_score) = NoNum \/ IntOfText(match.away_score) = NoNum
    THEN <<Pending>>
    ELSE LET home == Val(IntOfText(match.home_score))
             away == Val(IntOfText(match.away_score))
         IN  IF opt \in {"win", "draw", "lose"}
             THEN LET res == IF home > away THEN "win"
                             ELSE IF home = away THEN "draw" ELSE "lose"
                  IN  IF opt = res THEN <<"win">> ELSE <<"lose">>
             ELSE IF opt \in {"h_win", "h_draw", "h_lose"}
             THEN LET val == Get(match.line)
                      handicap == IF item_handicap # NoneT THEN FloatOfText(item_handicap)
                                  ELSE IF val = NoneT \/ val = <<>> THEN NoNum
                                  ELSE FloatOfText(val)
                  IN  IF handicap = NoNum THEN <<Pending>>
                      ELSE LET diff == (1000 * home + Val(handicap)) - 1000 * away
                               res == IF diff > 0 THEN "h_win"
                                      ELSE IF diff = 0 THEN "h_draw" ELSE "h_lose"
                           IN  IF opt = res THEN <<"win">> ELSE <<"lose">>
             ELSE <<Pending>>

(***************************************************************************)
(* Specification SpecClassify: the classifier applied to one field set     *)
(***************************************************************************)
EmptyColl == [i \in {} |-> NoDoc]

T05 == <<"0", ".", "5">>
T051 == <<"0", ".", "5", "1">>
Junk == <<"-">>
P180 == <<"1", ".", "8", "0">>
P186 == <<"1", ".", "8", "6">>
P188 == <<"1", ".", "8", "8">>
P195 == <<"1", ".", "9", "5">>
P197 == <<"1", ".", "9", "7">>
P198 == <<"1", ".", "9", "8">>

ClsHandicaps ==
    {NoneT, AbsentT, <<>>, Junk, PingShou, BanQiu, Recv(BanQiu), T05, T051}
ClsPrices == {NoneT, AbsentT, <<>>, Junk, P180, P186, P188, P195, P197, P198}

ClsFields ==
    [asian_initial_handicap : ClsHandicaps, asian_current_handicap : ClsHandicaps,
     asian_initial_home_odds : ClsPrices, asian_current_home_odds : ClsPrices]

IdleRequest == [upcoming |-> <<>>, n |-> 0, target_odds |-> 0]
IdleAnswer == [by |-> Pending, status |-> Pending, n |-> 0, target_odds |-> 0, combo |-> <<>>]
IdleSettle == [home_score |-> <<>>, away_score |-> <<>>, line |-> <<>>]
IdleResult == [by |-> Pending, result |-> <<>>]
IdleParse == [by |-> Pending, value |-> <<>>, raised |-> "none"]
IdleScore == [by |-> Pending]

StoreIdle == matches = EmptyColl /\ odds = EmptyColl /\ predictions = {}
ClsIdle == clsIn = IdleFields /\ clsOut = Pending
SelIdle == selIn = IdleRequest /\ selOut = IdleAnswer
SetIdle == setIn = IdleSettle /\ setOut = IdleResult
ParIdle == parIn = <<>> /\ parOut = IdleParse
ScIdle == scIn = <<>> /\ scOut = IdleScore

SaveIdle == saving = <<>>

storeVars == <<matches, odds, predictions>>
clsVars == <<clsIn, clsOut>>
selVars == <<selIn, selOut>>
setVars == <<setIn, setOut>>
parVars == <<parIn, parOut>>
scVars == <<scIn, scOut>>
toolVars == <<clsVars, selVars, setVars, parVars, scVars>>

InitClassify ==
    clsIn \in ClsFields /\ clsOut = Pending /\ StoreIdle /\ SaveIdle /\ ParIdle /\ ScIdle
    /\ SelIdle /\ SetIdle

Classify ==
    /\ clsOut = Pending
    /\ clsOut' = calc_asian_movement_label(clsIn)
    /\ UNCHANGED <<clsIn, storeVars, saving, parVars, scVars, selVars, setVars>>

\* update_all_labels: calc_label on one stored match.
CalcLabel ==
    /\ clsOut = Pending
    /\ clsOut' = calc_label(clsIn)
    /\ UNCHANGED <<clsIn, storeVars, saving, parVars, scVars, selVars, setVars>>

NextClassify == Classify \/ CalcLabel

SpecClassify == InitClassify /\ [][NextClassify]_vars

(***************************************************************************)
(* Specification SpecOdds: the crawl paths that write matches and odds     *)
(***************************************************************************)
OddsMatchIds == {"m1"}

AsianDicts ==
    [initial_handicap : {PingShou, <<>>}, current_handicap : {PingShou, BanQiu},
     initial_home_odds : {P195}, current_home_odds : {P180, P195, P197}]

OuDicts == [initial_total : {<<"2", ".", "5">>}, current_total : {<<"3">>}]

\* odds_data as crawl_match_odds builds it: each market is [] or [dict].
OddsData ==
    [asian_handicap : {<<>>} \cup {<<d>> : d \in AsianDicts},
     over_under : {<<>>} \cup {<<d>> : d \in OuDicts}]

\* (status, home_score, away_score) as the match list pages give them.
BasicData ==
    { [status |-> 0, home_score |-> <<>>, away_score |-> <<>>],
      [status |-> 2, home_score |-> <<"2">>, away_score |-> <<"1">>] }

\* The match_data of a match parsed from a list page: no odds keys.
BasicMatchData(b) ==
    [status |-> b.status, home_score |-> b.home_score, away_score |-> b.away_score,
     asian_initial_handicap |-> AbsentT, asian_current_handicap |-> AbsentT,
     asian_initial_home_odds |-> AbsentT, asian_current_home_odds |-> AbsentT,
     ou_initial_total |-> AbsentT, ou_current_total |-> AbsentT]

\* FootballCrawler._map_odds_details: each market present in odds_details is
\* copied onto the match object with dict.get(key), i.e. None for a missing key.
map_odds_details(match, odds_data) ==
    LET m1 == IF Len(odds_data.asian_handicap) > 0
              THEN LET asian == odds_data.asian_handicap[1]
                   IN  [match EXCEPT
                           !.asian_initial_handicap = Get(asian.initial_handicap),
                           !.asian_current_handicap = Get(asian.current_handicap),
                           !.asian_initial_home_odds = Get(asian.initial_home_odds),
                           !.asian_current_home_odds = Get(asian.current_home_odds)]
              ELSE match
    IN  IF Len(odds_data.over_under) > 0
        THEN LET ou == odds_data.over_under[1]
             IN  [m1 EXCEPT !.ou_initial_total = Get(ou.initial_total),
                            !.ou_current_total = Get(ou.current_total)]
        ELSE m1

InitOdds == StoreIdle /\ SaveIdle /\ ParIdle /\ ScIdle /\ ClsIdle /\ SelIdle /\ SetIdle

\* crawl_daily_matches / save_matches: one parsed match is saved.
SaveMatch(mid, b) ==
    /\ matches' = save_match(matches, mid, BasicMatchData(b))
    /\ UNCHANGED <<odds, predictions, toolVars, saving>>

\* save_odds(match_id, odds_data): the odds document, then the match record.
SaveOdds(mid, odds_data) ==
    /\ odds' = save_odds_doc(odds, mid, odds_data)
    /\ matches' = update_match_odds(matches, mid, odds_data)
    /\ UNCHANGED <<predictions, toolVars, saving>>

\* crawl_stream.generate / crawl_history: _map_odds_details, save_odds, then
\* save_match of the mapped match object.  The match list has been saved
\* (save_matches) before the odds of its matches are fetched.
CrawlOdds(mid, b, odds_data) ==
    /\ Has(matches, mid)
    /\ odds' = save_odds_doc(odds, mid, odds_data)
    /\ matches' = save_match(update_match_odds(matches, mid, odds_data), mid,
                             map_odds_details(BasicMatchData(b), odds_data))
    /\ UNCHANGED <<predictions, toolVars, saving>>

NextOdds ==
    \/ \E mid \in OddsMatchIds, b \in BasicData : SaveMatch(mid, b)
    \/ \E mid \in OddsMatchIds, od \in OddsData : SaveOdds(mid, od)
    \/ \E mid \in OddsMatchIds, b \in BasicData, od \in OddsData : CrawlOdds(mid, b, od)

SpecOdds == InitOdds /\ [][NextOdds]_vars

(***************************************************************************)
(* Specification SpecReview: crawl, predict and review of one match        *)
(***************************************************************************)
ReviewMatchIds == {"m1"}

\* Scores as the list pages give them: a number, '' or '-' before kick-off.
ReviewBasicData ==
    [status : {0, 2}, home_score : {<<>>, <<"1">>},
     away_score : {<<"-">>, <<"1">>, <<"2">>}]

ReviewAsianDicts ==
    [initial_handicap : {PingShou}, current_handicap : {PingShou, YiQiu},
     initial_home_odds : {P195}, current_home_odds : {P195}]

ReviewOuDicts == [initial_total : {<<"2", ".", "5">>}, current_total : {<<"2">>}]

ReviewOddsData ==
    [asian_handicap : {<<>>} \cup {<<d>> : d \in ReviewAsianDicts},
     over_under : {<<>>} \cup {<<d>> : d \in ReviewOuDicts}]

\* Picks the engine can produce (its defaults are draw / home / over).
EnginePicks ==
    { [win |-> "home", asian |-> "home", ou |-> "over", home |-> 2, away |-> 1],
      [win |-> "draw", asian |-> "away", ou |-> "under", home |-> 1, away |-> 1] }

InitReview == StoreIdle /\ SaveIdle /\ ParIdle /\ ScIdle /\ ClsIdle /\ SelIdle /\ SetIdle

\* /api/predict/<match_id> and predict.py predict_one: predict_match on the
\* stored match, whatever its status, then save_prediction.
PredictMatch(mid, picks) ==
    /\ Has(matches, mid)
    /\ predictions' = save_prediction(predictions, predict_match(mid, matches[mid], picks))
    /\ UNCHANGED <<matches, odds, toolVars, saving>>

\* prediction_scheduler.daily_prediction_task / predict.py predict_all: the
\* matches of get_matches(filters={'status': 0}) are predicted and saved (a
\* match without European prices is skipped, which leaves the store as it is).
DailyPredictionTask(mid, picks) ==
    /\ Has(matches, mid)
    /\ matches[mid].status = 0
    /\ predictions' = save_prediction(predictions, predict_match(mid, matches[mid], picks))
    /\ UNCHANGED <<matches, odds, toolVars, saving>>

\* /api/review/<match_id>.
ReviewMatch(mid) ==
    /\ predictions' = review_match(predictions, matches, mid)
    /\ UNCHANGED <<matches, odds, toolVars, saving>>

\* predict.py review / prediction_scheduler.
ReviewAllFinished ==
    /\ predictions' = review_all_finished_matches(predictions, matches)
    /\ UNCHANGED <<matches, odds, toolVars, saving>>

NextReview ==
    \/ \E mid \in ReviewMatchIds, b \in ReviewBasicData : SaveMatch(mid, b)
    \/ \E mid \in ReviewMatchIds, od \in ReviewOddsData : SaveOdds(mid, od)
    \/ \E mid \in ReviewMatchIds, picks \in EnginePicks : PredictMatch(mid, picks)
    \/ \E mid \in ReviewMatchIds, picks \in EnginePicks : DailyPredictionTask(mid, picks)
    \/ \E mid \in ReviewMatchIds : ReviewMatch(mid)
    \/ ReviewAllFinished

SpecReview == InitReview /\ [][NextReview]_vars

(***************************************************************************)
(* Specification SpecRace: two callers of save_odds on one match           *)
(*                                                                         *)
(* _crawl_latest runs in a BackgroundScheduler thread every 15 minutes     *)
(* (web_app.py:642-645) while the crawl routes run in request threads; all *)
(* share one MongoDBStorage, which takes no lock.  save_odds is two        *)
(* update_one calls, each atomic in MongoDB: the odds upsert, then the     *)
(* match update of _update_match_odds.                                     *)
(***************************************************************************)
Writers == {"scheduled", "manual"}

RaceMatchIds == {"m1"}

\* Snapshots that hold both markets and differ in line and price.
RaceAsianDicts ==
    [initial_handicap : {PingShou}, current_handicap : {PingShou, BanQiu},
     initial_home_odds : {P195}, current_home_odds : {P180, P197}]

RaceOddsData ==
    [asian_handicap : {<<d>> : d \in RaceAsianDicts},
     over_under : {<<d>> : d \in OuDicts}]

NoCall == [pc |-> "idle", match_id |-> "", odds_data |-> <<>>]

InitRace ==
    /\ StoreIdle /\ ParIdle /\ ScIdle /\ ClsIdle /\ SelIdle /\ SetIdle
    /\ saving = [w \in Writers |-> NoCall]

\* First write of save_odds: the upsert of odds_doc.  The callers have stored
\* the match list (save_matches) before they fetch the odds of its matches.
SaveOddsUpsert(w, mid, odds_data) ==
    /\ saving[w].pc \in {"idle", "done"}
    /\ Has(matches, mid)
    /\ odds' = save_odds_doc(odds, mid, odds_data)
    /\ saving' = [saving EXCEPT ![w] = [pc |-> "update_match", match_id |-> mid,
                                        odds_data |-> odds_data]]
    /\ UNCHANGED <<matches, predictions, toolVars>>

\* Second write of save_odds: _update_match_odds with the same odds_data.
SaveOddsUpdateMatch(w) ==
    /\ saving[w].pc = "update_match"
    /\ matches' = update_match_odds(matches, saving[w].match_id, saving[w].odds_data)
    /\ saving' = [saving EXCEPT ![w].pc = "done"]
    /\ UNCHANGED <<odds, predictions, toolVars>>

NextRace ==
    \/ \E mid \in RaceMatchIds, b \in BasicData : SaveMatch(mid, b)
    \/ \E w \in Writers, mid \in RaceMatchIds, od \in RaceOddsData :
           SaveOddsUpsert(w, mid, od)
    \/ \E w \in Writers : SaveOddsUpdateMatch(w)

SpecRace == InitRace /\ [][NextRace]_vars

(***************************************************************************)
(* Specification SpecSelect: one recommendation over a list of upcoming    *)
(* matches                                                                 *)
(***************************************************************************)
MaxMatches == 3

\* (win_odds, win_form) of a match: a home price and whether the form test of
\* the home pick passes.
WinChoices == {<<150, TRUE>>, <<175, FALSE>>}

\* The records an upcoming match with the given match_id may be.
MatchChoices(id) ==
    {[match_id |-> id, win_odds |-> w[1], lose_odds |-> l, ou_over |-> o,
      ou_line |-> 300, win_form |-> w[2], lose_form |-> TRUE, big_form |-> FALSE] :
        w \in WinChoices, l \in {0, 175}, o \in {0, 100}}

\* The lists of k upcoming matches, match_id = position (match_id is unique
\* in the matches collection).
RECURSIVE UpcomingOfLen(_)
UpcomingOfLen(k) ==
    IF k = 0 THEN {<<>>}
    ELSE {Append(u, m) : u \in UpcomingOfLen(k - 1), m \in MatchChoices(k)}

UpcomingLists == UNION {UpcomingOfLen(k) : k \in 0..MaxMatches}

\* The n and target_odds arguments of the request.
NArgs == {1, 2, 3}
TargetArgs == {150, 300}

InitSelect ==
    /\ selIn \in [upcoming : UpcomingLists, n : NArgs, target_odds : TargetArgs]
    /\ selOut = IdleAnswer
    /\ StoreIdle /\ SaveIdle /\ ParIdle /\ ScIdle /\ ClsIdle /\ SetIdle

RecommendWeb ==
    /\ selOut = IdleAnswer
    /\ selOut' = get_recommend(selIn)
    /\ UNCHANGED <<selIn, storeVars, saving, parVars, scVars, clsVars, setVars>>

RecommendScript ==
    /\ selOut = IdleAnswer
    /\ selOut' = recommend_high_odds_2chuan1(selIn)
    /\ UNCHANGED <<selIn, storeVars, saving, parVars, scVars, clsVars, setVars>>

NextSelect == RecommendWeb \/ RecommendScript

SpecSelect == InitSelect /\ [][NextSelect]_vars

(***************************************************************************)
(* Specification SpecCalc: calc_handicap_result on integer scores and      *)
(* quarter-ball handicaps                                                  *)
(***************************************************************************)
MaxScore == 4
MaxQuarters == 14

QuarterLines == {250 * k : k \in (0 - MaxQuarters)..MaxQuarters}

InitCalc ==
    /\ setIn \in [home_score : 0..MaxScore, away_score : 0..MaxScore, line : QuarterLines]
    /\ setOut = IdleResult
    /\ StoreIdle /\ SaveIdle /\ ParIdle /\ ScIdle /\ ClsIdle /\ SelIdle

CalcHandicapResult ==
    /\ setOut.by = Pending
    /\ setOut' = [by |-> "calc_handicap_result",
                  result |-> calc_handicap_result(setIn.home_score, setIn.away_score,
                                                  setIn.line)]
    /\ UNCHANGED <<setIn, storeVars, saving, parVars, scVars, clsVars, selVars>>

NextCalc == CalcHandicapResult

SpecCalc == InitCalc /\ [][NextCalc]_vars

(***************************************************************************)
(* Specification SpecSettle: the settlement functions on stored scores and *)
(* lines                                                                   *)
(***************************************************************************)
\* home_score / away_score of a stored match: missing, None, '', '-', a number.
ScoreTexts == {AbsentT, NoneT, <<>>, <<"-">>, <<"0">>, <<"1">>, <<"2">>}

\* Lines: hi_handicap_value ('-1', '1', '0'), an Asian handicap phrase, a total.
LineTexts ==
    {AbsentT, NoneT, <<>>, <<"-">>, <<"-", "1">>, <<"1">>, <<"0">>,
     <<"2", ".", "5">>, PingShou, YiQiu, Recv(YiQiu), SanQiu}

LegOptions == {"win", "h_win", "h_draw"}

InitSettle ==
    /\ setIn \in [home_score : ScoreTexts, away_score : ScoreTexts, line : LineTexts]
    /\ setOut = IdleResult
    /\ StoreIdle /\ SaveIdle /\ ParIdle /\ ScIdle /\ ClsIdle /\ SelIdle

\* filter_lower_wins on a finished match with these fields.
FilterLowerWins ==
    /\ setOut.by = Pending
    /\ setOut' = [by |-> "filter_lower_wins", opt |-> "",
                  result |-> filter_lower_wins(setIn)]
    /\ UNCHANGED <<setIn, storeVars, saving, parVars, scVars, clsVars, selVars>>

GetAsianResult ==
    /\ setOut.by = Pending
    /\ setOut' = [by |-> "get_asian_result", opt |-> "",
                  result |-> get_asian_result(Get(setIn.home_score),
                                              Get(setIn.away_score), Get(setIn.line))]
    /\ UNCHANGED <<setIn, storeVars, saving, parVars, scVars, clsVars, selVars>>

GetOuResult ==
    /\ setOut.by = Pending
    /\ setOut' = [by |-> "get_ou_result", opt |-> "",
                  result |-> get_ou_result(Get(setIn.home_score),
                                           Get(setIn.away_score), Get(setIn.line))]
    /\ UNCHANGED <<setIn, storeVars, saving, parVars, scVars, clsVars, selVars>>

\* A leg settled on the stored line of its match (item_handicap is None).
CheckLegResult(opt) ==
    /\ setOut.by = Pending
    /\ setOut' = [by |-> "check_leg_result", opt |-> opt,
                  result |-> check_leg_result(setIn, opt, NoneT)]
    /\ UNCHANGED <<setIn, storeVars, saving, parVars, scVars, clsVars, selVars>>

NextSettle ==
    \/ FilterLowerWins
    \/ GetAsianResult
    \/ GetOuResult
    \/ \E opt \in LegOptions : CheckLegResult(opt)

SpecSettle == InitSettle /\ [][NextSettle]_vars

(***************************************************************************)
(* Handicap parsers and odds normalizers of the crawler and the scripts    *)
(***************************************************************************)
LiangQiuBanSanQiu == <<"two", "ball", "half", "/", "three", "ball">>
SanSanQiuBan == <<"three", "/", "three", "ball", "half">>
SanQiuBan == <<"three", "ball", "half">>

\* str.strip(): the text without its leading and trailing blanks.
RECURSIVE Strip(_)
Strip(s) ==
    IF s # <<>> /\ s[1] = " " THEN Strip(Tail(s))
    ELSE IF s # <<>> /\ s[Len(s)] = " " THEN Strip(SubSeq(s, 1, Len(s) - 1))
    ELSE s

\* re.findall(r'[-+]?\d+\.?\d*', s)[0] as a float, or NoNum when nothing
\* matches: the first number of s, negated when a '-' stands right before it.
FirstSignedNumber(s) ==
    IF FirstNumber(s) = NoNum THEN NoNum
    ELSE LET a == CHOOSE i \in 1..Len(s) :
                      /\ s[i] \in Digits
                      /\ \A j \in 1..(i - 1) : s[j] \notin Digits
         IN  IF a > 1 /\ s[a - 1] = "-"
             THEN Num(0 - Val(FirstNumber(s)))
             ELSE FirstNumber(s)

\* mapping of FootballCrawler._parse_chinese_handicap.
chinese_mapping ==
    { <<PingShou, 0>>, <<PingBan, 250>>, <<BanQiu, 500>>, <<BanYi, 750>>,
      <<YiQiu, 1000>>, <<YiQiuBan, 1250>>, <<QiuBan, 1500>>,
      <<QiuBanLiang, 1750>>, <<QiuBanLiangQiu, 1750>>, <<LiangQiu, 2000>>,
      <<LiangLiangQiuBan, 2250>>, <<LiangQiuBan, 2500>>,
      <<LiangQiuBanSan, 2750>>, <<LiangQiuBanSanQiu, 2750>>,
      <<SanQiu, 3000>>, <<SanSanQiuBan, 3250>>, <<SanQiuBan, 3500>> }

\* FootballCrawler._parse_chinese_handicap(text): a receiving phrase gives
\* the positive value and a giving phrase the negative one; the numeric
\* fallback keeps the sign written in the text; 0 when nothing is recognised.
parse_chinese_handicap(text) ==
    IF ~ Truthy(text) THEN Num(0)
    ELSE LET stripped == Strip(text)
             is_receive == Contains(stripped, "recv")
             clean_text == Remove(stripped, "recv")
         IN  IF InMap(chinese_mapping, clean_text)
             THEN LET val == Lookup(chinese_mapping, clean_text)
                  IN  Num(IF is_receive THEN val ELSE 0 - val)
             ELSE LET nums == FirstSignedNumber(stripped)
                  IN  IF nums # NoNum THEN nums ELSE Num(0)

\* analyze_asian_movement.parse_handicap(h): the first number of the text,
\* 0 for an empty text, '-' and a text without digits.
movement_parse_handicap(h) ==
    IF ~ Truthy(h) \/ h = <<"-">> THEN Num(0)
    ELSE LET nums == FirstNumber(h)
         IN  IF nums # NoNum THEN nums ELSE Num(0)

\* predict_by_patterns.parse_handicap(handicap_str).
patterns_parse_handicap(handicap_str) ==
    IF ~ Truthy(handicap_str) THEN NoNum
    ELSE LET is_receiver == Contains(handicap_str, "recv")
             clean_str == Remove(handicap_str, "recv")
             value == IF InMap(handicap_map, clean_str)
                      THEN Num(Lookup(handicap_map, clean_str))
                      ELSE FirstNumber(clean_str)
         IN  IF value = NoNum THEN NoNum
             ELSE Num(IF is_receiver THEN 0 - Val(value) ELSE Val(value))

\* The exception float(x) raises: TypeError for None, ValueError for a text
\* that is not a number, "none" when it returns.
NoError == "none"
FloatError(x) ==
    IF ~ IsText(x) THEN "TypeError"
    ELSE IF FloatOfText(x) = NoNum THEN "ValueError"
    ELSE NoError

\* What a try around float(value) gives when float(value) raised err or
\* returned v and the except clause catches the classes in caught: the value
\* returned and the exception that leaves the function.
Guarded(err, v, caught) ==
    IF err = NoError THEN [value |-> v, raised |-> NoError]
    ELSE IF err \in caught THEN [value |-> NoNum, raised |-> NoError]
    ELSE [value |-> NoNum, raised |-> err]

\* 'float(value) if value else None' inside such a try.
GuardedFloat(value, caught) ==
    IF ~ Truthy(value) THEN [value |-> NoNum, raised |-> NoError]
    ELSE Guarded(FloatError(value), FloatOfText(value), caught)

\* A variant of predict_by_patterns.safe_float without the except clause.
patterns_safe_float_unguarded(value) == GuardedFloat(value, {})

\* predict_by_patterns.safe_float: except (ValueError, TypeError).
patterns_safe_float(value) == GuardedFloat(value, {"ValueError", "TypeError"})

\* get_daily_predictions.safe_float: a bare except.
web_safe_float(value) == GuardedFloat(value, {"ValueError", "TypeError"})

(***************************************************************************)
(* Specification SpecParse: one text handed to one parser or normalizer    *)
(***************************************************************************)
\* Texts without the receiving marker: every phrase of the vocabularies,
\* numeric tokens, the empty text, texts without digits, prices with and
\* without a direction arrow.
PlainTokens ==
    { e[1] : e \in handicap_map \cup chinese_mapping }
      \cup { <<>>, Junk, <<"ball">>,
             <<"1">>, <<"-", "1">>, <<"+", "1">>, <<"0">>,
             <<"0", ".", "5">>, <<"0", ".", "3">>, <<"2", ".", "7", "5">>,
             <<" ", "one", "ball">>,
             <<"1", ".", "9", "5">>, <<"1", ".", "9", "5", "up">>,
             <<"1", ".", "9", "5", "down">> }

ParseInputs == PlainTokens \cup { Recv(t) : t \in PlainTokens } \cup { NoneT }

InitParse ==
    /\ parIn \in ParseInputs /\ parOut = IdleParse
    /\ StoreIdle /\ SaveIdle /\ ClsIdle /\ SelIdle /\ SetIdle /\ ScIdle

Returned(f, v) == [by |-> f, value |-> v, raised |-> NoError]

ParseHandicap ==
    /\ parOut.by = Pending
    /\ parOut' = Returned("parse_handicap", parse_handicap(parIn))
    /\ UNCHANGED <<parIn, storeVars, saving, clsVars, selVars, setVars, scVars>>

ParseChineseHandicap ==
    /\ parOut.by = Pending
    /\ parOut' = Returned("_parse_chinese_handicap", parse_chinese_handicap(parIn))
    /\ UNCHANGED <<parIn, storeVars, saving, clsVars, selVars, setVars, scVars>>

MovementParseHandicap ==
    /\ parOut.by = Pending
    /\ parOut' = Returned("movement.parse_handicap", movement_parse_handicap(parIn))
    /\ UNCHANGED <<parIn, storeVars, saving, clsVars, selVars, setVars, scVars>>

PatternsParseHandicap ==
    /\ parOut.by = Pending
    /\ parOut' = Returned("patterns.parse_handicap", patterns_parse_handicap(parIn))
    /\ UNCHANGED <<parIn, storeVars, saving, clsVars, selVars, setVars, scVars>>

SafeFloat ==
    /\ parOut.by = Pending
    /\ parOut' = Returned("safe_float", safe_float(parIn))
    /\ UNCHANGED <<parIn, storeVars, saving, clsVars, selVars, setVars, scVars>>

PatternsSafeFloat ==
    /\ parOut.by = Pending
    /\ parOut' = [by |-> "patterns.safe_float",
                  value |-> patterns_safe_float(parIn).value,
                  raised |-> patterns_safe_float(parIn).raised]
    /\ UNCHANGED <<parIn, storeVars, saving, clsVars, selVars, setVars, scVars>>

WebSafeFloat ==
    /\ parOut.by = Pending
    /\ parOut' = [by |-> "web.safe_float",
                  value |-> web_safe_float(parIn).value,
                  raised |-> web_safe_float(parIn).raised]
    /\ UNCHANGED <<parIn, storeVars, saving, clsVars, selVars, setVars, scVars>>

NextParse ==
    \/ ParseHandicap
    \/ ParseChineseHandicap
    \/ MovementParseHandicap
    \/ PatternsParseHandicap
    \/ SafeFloat
    \/ PatternsSafeFloat
    \/ WebSafeFloat

SpecParse == InitParse /\ [][NextParse]_vars

(***************************************************************************)
(* web_app.get_daily_predictions: the body of 'for match in matches'       *)
(***************************************************************************)
\* Python truthiness of a float-or-None: None and 0.0 are falsy.
NumTruthy(o) == o # NoNum /\ Val(o) # 0

\* League names (glosses of the Chinese names used by the code).
SerieA == "Serie A"              \* '意甲'
Bundesliga2 == "2. Bundesliga"   \* '德乙'
LaLiga == "La Liga"              \* '西甲'
Ligue2 == "Ligue 2"              \* '法乙'
high_draw == {SerieA, Bundesliga2, LaLiga, Ligue2}

\* league_avg as the fraction <<total_goals, matches>>: 2.8 unless the league
\* has at least 10 finished matches.
league_avg_of(stats) ==
    IF stats.matches >= 10 THEN <<stats.total_goals, stats.matches>>
    ELSE <<28, 10>>

\* league_avg < t, league_avg >= t and league_avg <= t for t in thousandths.
AvgBelow(avg, t) == 1000 * avg[1] < t * avg[2]
AvgAtLeast(avg, t) == 1000 * avg[1] >= t * avg[2]
AvgAtMost(avg, t) == 1000 * avg[1] <= t * avg[2]

\* The fields of the match, through safe_float.
web_fields(match) ==
    [euro_home_init |-> web_safe_float(Get(match.euro_initial_win)).value,
     euro_away_init |-> web_safe_float(Get(match.euro_initial_lose)).value,
     euro_home_cur |-> web_safe_float(Get(match.euro_current_win)).value,
     euro_draw_cur |-> web_safe_float(Get(match.euro_current_draw)).value,
     euro_away_cur |-> web_safe_float(Get(match.euro_current_lose)).value,
     hi_handicap |-> web_safe_float(Get(match.hi_handicap_value)).value,
     hi_home_cur |-> web_safe_float(Get(match.hi_current_home_odds)).value,
     hi_draw_cur |-> web_safe_float(Get(match.hi_current_draw_odds)).value,
     hi_away_cur |-> web_safe_float(Get(match.hi_current_away_odds)).value,
     hi_home_init |-> web_safe_float(Get(match.hi_initial_home_odds)).value,
     hi_draw_init |-> web_safe_float(Get(match.hi_initial_draw_odds)).value,
     hi_away_init |-> web_safe_float(Get(match.hi_initial_away_odds)).value,
     ou_total |-> web_safe_float(
         Or(Get(match.ou_current_total), Get(match.ou_initial_total))).value,
     ou_over |-> web_safe_float(
         Or(Get(match.ou_current_over_odds), Get(match.ou_initial_over_odds))).value,
     ou_under |-> web_safe_float(
         Or(Get(match.ou_current_under_odds), Get(match.ou_initial_under_odds))).value,
     league |-> match.league]

\* What one rule does to the three scores of a market and to its reasons.
Effect(h, d, a, reasons) == [home |-> h, draw |-> d, away |-> a, reasons |-> reasons]
NoEffect == Effect(0, 0, 0, <<>>)

\* The scores and the reasons of a market between two rules.
Tally0 == [home |-> 0, draw |-> 0, away |-> 0, reasons |-> <<>>]
Apply(t, e) ==
    [home |-> t.home + e.home, draw |-> t.draw + e.draw,
     away |-> t.away + e.away, reasons |-> t.reasons \o e.reasons]

\* The tallies before the first rule and after each rule of the list.
RECURSIVE Tallies(_, _)
Tallies(t, effects) ==
    IF effects = <<>> THEN <<t>>
    ELSE <<t>> \o Tallies(Apply(t, Head(effects)), Tail(effects))

\* === 1: the rules of the match-outcome market, in the order of the code.
result_rules(f) ==
    LET triple == /\ NumTruthy(f.euro_home_cur) /\ NumTruthy(f.euro_draw_cur)
                  /\ NumTruthy(f.euro_away_cur)
        hc == Val(f.euro_home_cur)
        dc == Val(f.euro_draw_cur)
        ac == Val(f.euro_away_cur)
    IN  << IF ~ triple THEN NoEffect
           ELSE IF hc < 1500 THEN Effect(4, 0, 0, <<"home price very low">>)
           ELSE IF hc < 1700 THEN Effect(3, 0, 0, <<"home price low">>)
           ELSE IF hc < 2000 THEN Effect(2, 0, 0, <<>>)
           ELSE IF hc > 2600 THEN Effect(0, 0, 2, <<"home price high">>)
           ELSE NoEffect,
           IF ~ triple THEN NoEffect
           ELSE IF ac < 1700 THEN Effect(0, 0, 4, <<"away price very low">>)
           ELSE IF ac < 2000 THEN Effect(0, 0, 3, <<"away price low">>)
           ELSE IF ac < 2300 THEN Effect(0, 0, 2, <<>>)
           ELSE NoEffect,
           IF ~ triple THEN NoEffect
           ELSE IF dc < 3100 THEN Effect(0, 2, 0, <<"draw price low">>)
           ELSE IF dc > 3600 THEN Effect(0, -1, 0, <<>>)
           ELSE NoEffect,
           IF NumTruthy(f.euro_home_init) /\ NumTruthy(f.euro_home_cur)
           THEN LET change == FloatSub(Val(f.euro_home_init), Val(f.euro_home_cur))
                IN  IF change > 150 THEN Effect(2, 0, 0, <<"home price fell">>)
                    ELSE IF change < -120 THEN Effect(-1, 0, 0, <<>>)
                    ELSE NoEffect
           ELSE NoEffect,
           IF NumTruthy(f.euro_away_init) /\ NumTruthy(f.euro_away_cur)
           THEN LET change == FloatSub(Val(f.euro_away_init), Val(f.euro_away_cur))
                IN  IF change > 150 THEN Effect(0, 0, 2, <<"away price fell">>)
                    ELSE NoEffect
           ELSE NoEffect,
           IF f.league \in high_draw
           THEN Effect(0, 2, 0, <<"high-draw league">>)
           ELSE NoEffect >>

\* scores.sort(key=lambda x: x[1], reverse=True) on three <<name, score>>
\* pairs: descending by score, equal scores keep their order.
SortDesc(s) ==
    LET before(i, j) == s[i][2] > s[j][2] \/ (s[i][2] = s[j][2] /\ i < j)
        rank(i) == 1 + Cardinality({j \in 1..3 : j # i /\ before(j, i)})
    IN  [k \in 1..3 |-> s[CHOOSE i \in 1..3 : rank(i) = k]]

\* A variant of confidence_of without the cap.
confidence_of_uncapped(scores) ==
    50 + (scores[1][2] - scores[2][2]) * 8 + scores[1][2] * 3

\* min(90, 50 + diff * 8 + scores[0][1] * 3) on the sorted scores.
confidence_of(scores) ==
    Min(90, 50 + (scores[1][2] - scores[2][2]) * 8 + scores[1][2] * 3)

\* === 2: the rules of the handicap market; they run only when the three
\* current prices are there.
hi_rules(f) ==
    LET hc == Val(f.hi_home_cur)
        dc == Val(f.hi_draw_cur)
        ac == Val(f.hi_away_cur)
        min_odds == Min(hc, Min(dc, ac))
        abs_hc == Abs(Val(f.hi_handicap))
    IN  << IF hc = min_odds THEN Effect(3, 0, 0, <<>>) ELSE NoEffect,
           IF dc = min_odds THEN Effect(0, 3, 0, <<>>) ELSE NoEffect,
           IF ac = min_odds THEN Effect(0, 0, 3, <<>>) ELSE NoEffect,
           IF hc < 1800 THEN Effect(3, 0, 0, <<"let-home price low">>)
           ELSE IF hc < 2100 THEN Effect(2, 0, 0, <<>>)
           ELSE NoEffect,
           IF dc < 3000 THEN Effect(0, 2, 0, <<"let-draw price low">>)
           ELSE IF dc < 3500 THEN Effect(0, 1, 0, <<>>)
           ELSE NoEffect,
           IF ac < 1800 THEN Effect(0, 0, 3, <<"let-away price low">>)
           ELSE IF ac < 2200 THEN Effect(0, 0, 2, <<"let-away price rather low">>)
           ELSE NoEffect,
           IF NumTruthy(f.hi_home_init) /\ FloatSub(Val(f.hi_home_init), hc) > 150
           THEN Effect(2, 0, 0, <<"let-home price fell">>) ELSE NoEffect,
           IF NumTruthy(f.hi_draw_init) /\ FloatSub(Val(f.hi_draw_init), dc) > 150
           THEN Effect(0, 2, 0, <<"let-draw price fell">>) ELSE NoEffect,
           IF NumTruthy(f.hi_away_init) /\ FloatSub(Val(f.hi_away_init), ac) > 150
           THEN Effect(0, 0, 2, <<"let-away price fell">>) ELSE NoEffect,
           IF f.hi_handicap = NoNum THEN NoEffect
           ELSE IF abs_hc >= 2000 THEN Effect(0, 0, 1, <<"deep line">>)
           ELSE IF abs_hc = 1000 THEN Effect(0, 0, 0, <<"one-ball line">>)
           ELSE IF abs_hc = 0 THEN Effect(0, 1, 0, <<"level line">>)
           ELSE NoEffect >>

\* sorted([hi_home_cur, hi_draw_cur, hi_away_cur])[1] - [0] > 0.5.
LowestStandsOut(f) ==
    LET hc == Val(f.hi_home_cur)
        dc == Val(f.hi_draw_cur)
        ac == Val(f.hi_away_cur)
        lowest == Min(hc, Min(dc, ac))
        second == IF hc = lowest THEN Min(dc, ac)
                  ELSE IF dc = lowest THEN Min(hc, ac)
                  ELSE Min(hc, dc)
    IN  FloatSub(second, lowest) > 500

\* === 3: the total-goals market: <<goal_pred, goal_conf, goal_reasons>>.
goal_market(f, league_avg) ==
    LET t == Val(f.ou_total)
        base ==
            IF t <= 2000 THEN <<"0-1", 85, <<"very low line">>>>
            ELSE IF t <= 2250 THEN <<"1-2", 78, <<"low line">>>>
            ELSE IF t <= 2500 THEN
                IF AvgBelow(league_avg, 2500)
                THEN <<"1-2", 72, <<"line and low-scoring league">>>>
                ELSE <<"2-3", 72, <<"line">>>>
            ELSE IF t <= 2750 THEN <<"2-3", 75, <<"line">>>>
            ELSE IF t <= 3000 THEN
                IF AvgAtLeast(league_avg, 3000)
                THEN <<"3-4", 75, <<"high-scoring league and line">>>>
                ELSE <<"2-3", 70, <<"line">>>>
            ELSE IF t <= 3500 THEN <<"3-4", 68, <<"high line">>>>
            ELSE <<"4-6", 60, <<"very high line">>>>
        priced ==
            IF NumTruthy(f.ou_over) /\ NumTruthy(f.ou_under)
            THEN IF Val(f.ou_over) < 820
                 THEN << IF base[1] = "2-3" THEN "3-4" ELSE base[1],
                         base[2] + 5, base[3] \o <<"over at low price">> >>
                 ELSE IF Val(f.ou_under) < 820
                 THEN << IF base[1] = "2-3" THEN "1-2"
                         ELSE IF base[1] = "3-4" THEN "2-3" ELSE base[1],
                         base[2] + 5, base[3] \o <<"under at low price">> >>
                 ELSE base
            ELSE base
        unpriced ==
            IF AvgAtLeast(league_avg, 3200)
            THEN <<"3-4", 65, <<"high-scoring league">>>>
            ELSE IF AvgAtMost(league_avg, 2400)
            THEN <<"1-2", 65, <<"low-scoring league">>>>
            ELSE <<"2-3", 60, <<"league average">>>>
        chosen == IF NumTruthy(f.ou_total) THEN priced ELSE unpriced
    IN  <<chosen[1], Min(chosen[2], 90), chosen[3]>>

Last(s) == s[Len(s)]

HiScored(f) ==
    NumTruthy(f.hi_home_cur) /\ NumTruthy(f.hi_draw_cur) /\ NumTruthy(f.hi_away_cur)

\* pred after the three markets, from the tallies of the first two markets
\* and the <<goal_pred, goal_conf, goal_reasons>> of the third.
web_prediction(f, result_tallies, hi_tallies, goal) ==
    LET r == Last(result_tallies)
        scores == SortDesc(<<<<"home win", r.home>>, <<"draw", r.draw>>,
                             <<"away win", r.away>>>>)
        h == Last(hi_tallies)
        let_scores == SortDesc(<<<<"let home", h.home>>, <<"let draw", h.draw>>,
                                 <<"let away", h.away>>>>)
    IN  [by |-> "get_daily_predictions",
         result_pred |-> scores[1][1],
         result_conf |-> confidence_of(scores),
         result_reasons |-> r.reasons,
         result_tallies |-> result_tallies,
         hi_pred |-> IF HiScored(f) THEN let_scores[1][1] ELSE "",
         hi_conf |-> IF ~ HiScored(f) THEN 0
                     ELSE IF LowestStandsOut(f)
                     THEN Min(90, confidence_of(let_scores) + 10)
                     ELSE confidence_of(let_scores),
         hi_reasons |-> h.reasons,
         hi_tallies |-> hi_tallies,
         goal_pred |-> goal[1],
         goal_conf |-> goal[2],
         goal_reasons |-> goal[3]]

\* The three markets on the parsed fields. result_tallies and hi_tallies are
\* the scores and the reason list of the market before the first rule and
\* after each rule.
score_markets(f, league_avg) ==
    web_prediction(f,
                   Tallies(Tally0, result_rules(f)),
                   IF HiScored(f) THEN Tallies(Tally0, hi_rules(f)) ELSE <<Tally0>>,
                   goal_market(f, league_avg))

\* The prediction built for one match.
get_daily_predictions(match, stats) ==
    score_markets(web_fields(match), league_avg_of(stats))

(***************************************************************************)
(* PatternPredictor.predict_single_match                                   *)
(***************************************************************************)
\* self.league_features (glosses of the Chinese league names).
water_down_leagues ==
    {"Europa League", Ligue2, "Championship", "Primeira Liga", "WCQ Europe",
     "J1 League", "Premier League", "Ligue 1"}
trap_leagues ==
    {"Allsvenskan", "Primeira Liga", "WCQ Europe", "Eliteserien", "J2 League",
     "Bundesliga", "J1 League", "MLS"}
high_goal_leagues ==
    {"Eredivisie", "WCQ Europe", "Bundesliga", "Eliteserien",
     "Champions League", "MLS"}
low_goal_leagues == {"J2 League", Ligue2, SerieA, Bundesliga2, "Allsvenskan"}
level_draw_leagues ==
    {"Primeira Liga", "Premier League", Ligue2, "K1 League", "Allsvenskan"}
level_away_leagues == {"J2 League", "MLS", "Eerste Divisie"}

\* The fields of the match, through safe_float and parse_handicap.
pattern_fields(match) ==
    [euro_win |-> patterns_safe_float(
         Or(Get(match.euro_current_win), Get(match.euro_initial_win))).value,
     euro_lose |-> patterns_safe_float(
         Or(Get(match.euro_current_lose), Get(match.euro_initial_lose))).value,
     euro_init_win |-> patterns_safe_float(Get(match.euro_initial_win)).value,
     asian_home |-> patterns_safe_float(
         Or(Get(match.asian_current_home_odds),
            Get(match.asian_initial_home_odds))).value,
     asian_init_home |-> patterns_safe_float(Get(match.asian_initial_home_odds)).value,
     handicap |-> patterns_parse_handicap(
         Or(Get(match.asian_current_handicap), Get(match.asian_initial_handicap))),
     asian_label |-> match.asian_movement_label,
     ou_total |-> patterns_safe_float(
         Or(Get(match.ou_current_total), Get(match.ou_initial_total))).value,
     league |-> match.league]

LevelLine(f) == f.handicap # NoNum /\ Abs(Val(f.handicap)) <= 250

\* Rules 1 to 5 in the order of the code: what each does to the scores and
\* to prediction['reasons'].
pattern_rules(f) ==
    LET euro == NumTruthy(f.euro_win) /\ NumTruthy(f.euro_lose)
        h == Val(f.handicap)
        watered == NumTruthy(f.asian_init_home) /\ NumTruthy(f.asian_home)
        water_change == FloatSub(Val(f.asian_home), Val(f.asian_init_home))
    IN  << \* rule 1: prices of the 1X2 market
           IF ~ euro THEN NoEffect
           ELSE IF Val(f.euro_win) < 1800 THEN Effect(30, 0, 0, <<"home price very low">>)
           ELSE IF Val(f.euro_win) < 2200 THEN Effect(15, 0, 0, <<"home price low">>)
           ELSE IF Val(f.euro_lose) < 1800 THEN Effect(0, 0, 30, <<"away price very low">>)
           ELSE IF Val(f.euro_lose) < 2200 THEN Effect(0, 0, 15, <<"away price low">>)
           ELSE NoEffect,
           IF euro /\ NumTruthy(f.euro_init_win)
                   /\ FloatSub(Val(f.euro_win), Val(f.euro_init_win)) < -150
           THEN IF f.league \in trap_leagues
                THEN Effect(0, 0, 20, <<"home price fell in a trap league">>)
                ELSE Effect(10, 0, 0, <<"home price fell">>)
           ELSE NoEffect,
           \* rule 2: the handicap line
           IF LevelLine(f) /\ NumTruthy(f.asian_home)
                /\ 1010 <= Val(f.asian_home) /\ Val(f.asian_home) <= 1100
           THEN Effect(0, 25, 0, <<"level line at a high price">>)
           ELSE NoEffect,
           IF LevelLine(f) /\ f.league \in level_draw_leagues
           THEN Effect(0, 15, 0, <<"level line in a drawing league">>)
           ELSE IF LevelLine(f) /\ f.league \in level_away_leagues
           THEN Effect(0, 0, 15, <<"level line in an away league">>)
           ELSE NoEffect,
           IF f.handicap # NoNum /\ ~ LevelLine(f) /\ h >= 1500
           THEN Effect(0, 0, 0, <<"deep line">>)
           ELSE IF f.handicap # NoNum /\ ~ LevelLine(f) /\ h <= -1500
           THEN Effect(0, 0, 0, <<"reverse deep line">>)
           ELSE NoEffect,
           \* rule 3: the move of the home price of the handicap market
           IF watered /\ water_change < -50
           THEN IF f.league \in water_down_leagues
                THEN Effect(20, 0, 0, <<"price fell in a falling-price league">>)
                ELSE Effect(10, 0, 0, <<"home price of the line fell">>)
           ELSE IF watered /\ water_change > 50
           THEN Effect(0, 0, 10, <<"home price of the line rose">>)
           ELSE NoEffect,
           \* rule 4: the movement label
           IF f.asian_label = LineUpPriceDown
           THEN Effect(15, 0, 0, <<"line up, price down">>)
           ELSE IF f.asian_label = LineDownPriceDown
           THEN Effect(0, 0, 15, <<"line down, price down">>)
           ELSE NoEffect,
           \* rule 5: total goals
           IF NumTruthy(f.ou_total) /\ f.league \in high_goal_leagues
           THEN Effect(0, 0, 0, <<"high-scoring league">>)
           ELSE IF NumTruthy(f.ou_total) /\ f.league \in low_goal_leagues
           THEN Effect(0, 0, 0, <<"low-scoring league">>)
           ELSE NoEffect,
           IF NumTruthy(f.ou_total) /\ LevelLine(f)
           THEN Effect(0, 0, 0, <<"level line, tight match">>)
           ELSE NoEffect >>

\* prediction['asian_prediction'] after rules 2 and 3.
asian_prediction_of(f) ==
    IF NumTruthy(f.asian_init_home) /\ NumTruthy(f.asian_home)
         /\ FloatSub(Val(f.asian_home), Val(f.asian_init_home)) < -50
         /\ f.league \in water_down_leagues
    THEN "let home"
    ELSE IF f.handicap # NoNum /\ ~ LevelLine(f) /\ Val(f.handicap) >= 1500
    THEN "receiving side"
    ELSE IF f.handicap # NoNum /\ ~ LevelLine(f) /\ Val(f.handicap) <= -1500
    THEN "giving side"
    ELSE "None"

\* prediction['warnings']: the trap-league warning of rule 1 and the
\* possible-trap warning of rule 4.
warnings_of(f) ==
    (IF NumTruthy(f.euro_win) /\ NumTruthy(f.euro_lose) /\ NumTruthy(f.euro_init_win)
          /\ FloatSub(Val(f.euro_win), Val(f.euro_init_win)) < -150
          /\ f.league \in trap_leagues
     THEN <<"trap league">> ELSE <<>>)
      \o (IF f.asian_label \in {LineUpPriceUp, LineDownPriceUp}
          THEN <<"possible trap">> ELSE <<>>)

\* prediction['ou_prediction'] after rule 5.
ou_prediction_of(f) ==
    IF ~ NumTruthy(f.ou_total) THEN "None"
    ELSE IF LevelLine(f) THEN "under"
    ELSE IF f.league \in high_goal_leagues THEN "over"
    ELSE IF f.league \in low_goal_leagues THEN "under"
    ELSE "None"

HardToTell == "hard to tell"   \* '难以判断'

\* The final prediction, from the tallies before the first rule and after
\* each rule.
pattern_prediction(f, tallies) ==
    LET t == Last(tallies)
        max_score == Max(t.home, Max(t.draw, t.away))
        result == IF max_score = 0 THEN HardToTell
                  ELSE IF t.home = max_score THEN "home win"
                  ELSE IF t.away = max_score THEN "away win"
                  ELSE "draw"
        confidence == IF max_score = 0 THEN 40
                      ELSE IF t.home = max_score THEN Min(90, 50 + t.home)
                      ELSE IF t.away = max_score THEN Min(90, 50 + t.away)
                      ELSE Min(85, 50 + t.draw)
    IN  [by |-> "predict_single_match",
         result |-> result,
         confidence |-> IF Len(t.reasons) < 2 THEN Max(40, confidence - 20)
                        ELSE confidence,
         reasons |-> t.reasons,
         tallies |-> tallies,
         asian_prediction |-> asian_prediction_of(f),
         ou_prediction |-> ou_prediction_of(f),
         warnings |-> warnings_of(f)]

score_patterns(f) == pattern_prediction(f, Tallies(Tally0, pattern_rules(f)))

predict_single_match(match) == score_patterns(pattern_fields(match))

(***************************************************************************)
(* Specification SpecScore: one upcoming match handed to a pattern scorer  *)
(***************************************************************************)
\* A match without any odds.
BareMatch ==
    [league |-> "", asian_movement_label |-> LabelAbsent,
     euro_initial_win |-> NoneT, euro_initial_lose |-> NoneT,
     euro_current_win |-> NoneT, euro_current_draw |-> NoneT,
     euro_current_lose |-> NoneT,
     hi_handicap_value |-> NoneT,
     hi_current_home_odds |-> NoneT, hi_current_draw_odds |-> NoneT,
     hi_current_away_odds |-> NoneT,
     hi_initial_home_odds |-> NoneT, hi_initial_draw_odds |-> NoneT,
     hi_initial_away_odds |-> NoneT,
     ou_current_total |-> NoneT, ou_initial_total |-> NoneT,
     ou_current_over_odds |-> NoneT, ou_initial_over_odds |-> NoneT,
     ou_current_under_odds |-> NoneT, ou_initial_under_odds |-> NoneT,
     asian_current_home_odds |-> NoneT, asian_initial_home_odds |-> NoneT,
     asian_current_handicap |-> NoneT, asian_initial_handicap |-> NoneT]

\* league_stats[league] of a league without enough finished matches.
NoStats == [matches |-> 0, total_goals |-> 0]
LeagueStats ==
    { NoStats, [matches |-> 9, total_goals |-> 40],
      [matches |-> 10, total_goals |-> 23], [matches |-> 10, total_goals |-> 30],
      [matches |-> 10, total_goals |-> 33] }

\* Matches that differ in the 1X2 prices, extreme prices included.
EuroMatches ==
    { [BareMatch EXCEPT !.euro_current_win = w, !.euro_current_draw = d,
                        !.euro_current_lose = l, !.euro_initial_win = iw,
                        !.euro_initial_lose = il, !.league = lg] :
        w \in {NoneT, <<"1", ".", "4", "0">>, <<"1", ".", "6", "0">>, <<"1", ".", "9", "0">>, <<"2", ".", "3", "0">>, <<"2", ".", "7", "0">>, <<"0">>, <<"-", "1">>},
        d \in {NoneT, <<"3", ".", "0", "0">>, <<"3", ".", "3", "0">>, <<"3", ".", "7", "0">>},
        l \in {NoneT, <<"1", ".", "6", "0">>, <<"2", ".", "2", "0">>, <<"2", ".", "5", "0">>},
        iw \in {NoneT, <<"1", ".", "6", "0">>}, il \in {NoneT, <<"2", ".", "5", "0">>},
        lg \in {"", SerieA} }

\* Matches that differ in the prices and the line of the handicap market.
HiInitials ==
    { <<NoneT, NoneT, NoneT>>, <<<<"2", ".", "5", "0">>, <<"3", ".", "6", "0">>, <<"2", ".", "5", "0">>>> }
HiMatches ==
    { [BareMatch EXCEPT !.hi_current_home_odds = h, !.hi_current_draw_odds = d,
                        !.hi_current_away_odds = a,
                        !.hi_initial_home_odds = i[1],
                        !.hi_initial_draw_odds = i[2],
                        !.hi_initial_away_odds = i[3],
                        !.hi_handicap_value = v] :
        h \in {NoneT, <<"1", ".", "7", "0">>, <<"2", ".", "0", "0">>, <<"2", ".", "5", "0">>},
        d \in {<<"2", ".", "9", "0">>, <<"3", ".", "2", "0">>, <<"3", ".", "6", "0">>},
        a \in {<<"1", ".", "7", "0">>, <<"2", ".", "1", "0">>, <<"2", ".", "5", "0">>,
                <<"3", ".", "1", "0">>},
        i \in HiInitials,
        v \in {NoneT, <<"0">>, <<"-", "1">>, <<"2">>, <<"0", ".", "5">>} }

\* Matches that differ in the totals line and its prices.
OuTotals ==
    { <<t, NoneT>> : t \in {NoneT, <<"2">>, <<"2", ".", "2", "5">>, <<"2", ".", "5">>, <<"2", ".", "7", "5">>, <<"3">>, <<"3", ".", "5">>, <<"4">>} }
      \cup { <<NoneT, <<"2", ".", "5">>>> }
OuPrices ==
    { <<NoneT, NoneT>>, <<<<"0", ".", "8", "0">>, <<"0", ".", "9", "0">>>>, <<<<"0", ".", "9", "0">>, <<"0", ".", "8", "0">>>>, <<<<"0", ".", "9", "0">>, <<"0", ".", "9", "0">>>> }
OuMatches ==
    { [BareMatch EXCEPT !.ou_current_total = t[1], !.ou_initial_total = t[2],
                        !.ou_current_over_odds = p[1],
                        !.ou_current_under_odds = p[2]] :
        t \in OuTotals, p \in OuPrices }

\* Matches that differ in what the rules of predict_single_match read.
AsianPrices ==
    { <<NoneT, NoneT>>, <<<<"0", ".", "9", "0">>, <<"1", ".", "0", "0">>>>, <<<<"1", ".", "1", "0">>, <<"1", ".", "0", "0">>>>, <<<<"1", ".", "0", "5">>, NoneT>> }
LabelAndTotal ==
    { <<LabelAbsent, NoneT>>, <<LineUpPriceDown, <<"2", ".", "5">>>>,
      <<LineDownPriceDown, NoneT>>, <<LineUpPriceUp, <<"2", ".", "5">>>> }
PatternMatches ==
    { [BareMatch EXCEPT !.euro_current_win = w, !.euro_current_lose = l,
                        !.euro_initial_win = iw,
                        !.asian_current_home_odds = p[1],
                        !.asian_initial_home_odds = p[2],
                        !.asian_current_handicap = h,
                        !.asian_movement_label = x[1],
                        !.ou_current_total = x[2],
                        !.league = lg] :
        w \in {NoneT, <<"1", ".", "6", "0">>, <<"2", ".", "5", "0">>, <<"-", "1">>},
        l \in {NoneT, <<"1", ".", "6", "0">>, <<"2", ".", "5", "0">>},
        iw \in {NoneT, <<"2", ".", "5", "0">>},
        p \in AsianPrices,
        h \in {NoneT, PingShou, QiuBan, Recv(LiangQiu)},
        x \in LabelAndTotal,
        lg \in {"", "Primeira Liga", "J2 League"} }

ScoreInputs ==
    { [match |-> m, stats |-> NoStats] :
        m \in EuroMatches \cup HiMatches \cup PatternMatches }
      \cup { [match |-> m, stats |-> s] : m \in OuMatches, s \in LeagueStats }

InitScore ==
    /\ scIn \in ScoreInputs /\ scOut = IdleScore
    /\ StoreIdle /\ SaveIdle /\ ClsIdle /\ SelIdle /\ SetIdle /\ ParIdle

GetDailyPredictions ==
    /\ scOut.by = Pending
    /\ scOut' = get_daily_predictions(scIn.match, scIn.stats)
    /\ UNCHANGED <<scIn, storeVars, saving, clsVars, selVars, setVars, parVars>>

PredictSingleMatch ==
    /\ scOut.by = Pending
    /\ scOut' = predict_single_match(scIn.match)
    /\ UNCHANGED <<scIn, storeVars, saving, clsVars, selVars, setVars, parVars>>

NextScore ==
    \/ GetDailyPredictions
    \/ PredictSingleMatch

SpecScore == InitScore /\ [][NextScore]_vars

(***************************************************************************)
(* Claims on the movement classifier                                       *)
(***************************************************************************)
\* The nine rows of the classification table, line change first.
TableLabel(hd, pd) ==
    CASE hd > 10 /\ pd < -20 -> LineUpPriceDown
      [] hd > 10 /\ pd > 20 -> LineUpPriceUp
      [] hd > 10 /\ pd >= -20 /\ pd <= 20 -> LineUp
      [] hd < -10 /\ pd < -20 -> LineDownPriceDown
      [] hd < -10 /\ pd > 20 -> LineDownPriceUp
      [] hd < -10 /\ pd >= -20 /\ pd <= 20 -> LineDown
      [] hd >= -10 /\ hd <= 10 /\ pd < -20 -> PriceDown
      [] hd >= -10 /\ hd <= 10 /\ pd > 20 -> PriceUp
      [] hd >= -10 /\ hd <= 10 /\ pd >= -20 /\ pd <= 20 -> Unchanged

ClsParsed ==
    [hi |-> parse_handicap(Get(clsIn.asian_initial_handicap)),
     hc |-> parse_handicap(Get(clsIn.asian_current_handicap)),
     pi |-> safe_float(Get(clsIn.asian_initial_home_odds)),
     pc |-> safe_float(Get(clsIn.asian_current_home_odds))]

ClsAllUsable ==
    ClsParsed.hi # NoNum /\ ClsParsed.hc # NoNum /\ ClsParsed.pi # NoNum /\ ClsParsed.pc # NoNum

\* C3: with four usable inputs the classifier returns exactly the label of the
\* nine-row table for handicap_delta = current - initial handicap and
\* price_delta = current - initial home price (thresholds 0.01 and 0.02).
C3_TableLabel ==
    (clsOut # Pending /\ ClsAllUsable) =>
        clsOut = TableLabel(FloatSub(Val(ClsParsed.hc), Val(ClsParsed.hi)),
                            FloatSub(Val(ClsParsed.pc), Val(ClsParsed.pi)))

\* A line-up whose price moved within the 0.02 band has been classified.
C3_Witness ==
    /\ clsIn.asian_initial_handicap = PingShou /\ clsIn.asian_current_handicap = BanQiu
    /\ clsIn.asian_initial_home_odds = P186 /\ clsIn.asian_current_home_odds = P188
    /\ clsOut = LineUp

\* The raw values no label may be derived from: null, missing, empty, or a text
\* with neither a vocabulary phrase nor a digit.
Unusable(x) == x \in {NoneT, AbsentT, <<>>, Junk}

\* C4: the classifier returns null whenever at least one of its four inputs is
\* null, empty or unparseable.
C4_NullPropagation ==
    (/\ clsOut # Pending
     /\ \/ Unusable(clsIn.asian_initial_handicap)
        \/ Unusable(clsIn.asian_current_handicap)
        \/ Unusable(clsIn.asian_initial_home_odds)
        \/ Unusable(clsIn.asian_current_home_odds))
    => clsOut = LabelNone

\* Only the current home price is missing, and the classifier has answered null.
C4_Witness ==
    /\ clsIn.asian_initial_handicap = PingShou /\ clsIn.asian_current_handicap = BanQiu
    /\ clsIn.asian_initial_home_odds = P195 /\ clsIn.asian_current_home_odds = <<>>
    /\ clsOut = LabelNone

(***************************************************************************)
(* Claims on the persisted movement label                                  *)
(***************************************************************************)
\* C1: after any sequence of save_odds and save_match operations the persisted
\* asian_movement_label of every match equals what the classifier returns for
\* the stored initial/current handicap and home price, and is absent whenever
\* the classifier returns null for them.
C1_LabelFresh ==
    \A mid \in DOMAIN matches :
        LET lab == calc_asian_movement_label(AsianOf(matches[mid]))
        IN  matches[mid].asian_movement_label =
                (IF lab = LabelNone THEN LabelAbsent ELSE lab)

\* A label computed by save_odds is stored with the fields it was computed from.
C1_Witness ==
    \E mid \in DOMAIN matches :
        /\ matches[mid].asian_movement_label = LineUpPriceDown
        /\ calc_asian_movement_label(AsianOf(matches[mid])) = LineUpPriceDown

(***************************************************************************)
(* Claims on prediction review                                             *)
(***************************************************************************)
Settled(d) == d.is_reviewed /\ d.review # <<>>

\* C2: once a prediction's settlement has been written (is_reviewed = true with
\* correctness flags and accuracy), no later review_match,
\* review_all_finished_matches or save_prediction for the same match_id
\* changes its is_reviewed flag, its correctness flags or its accuracy.
C2_SettlementImmutable ==
    [][\A d \in predictions : Settled(d) =>
          \E e \in predictions' :
              /\ e.match_id = d.match_id
              /\ e.is_reviewed = d.is_reviewed
              /\ e.review # <<>>
              /\ e.review[1].win_correct = d.review[1].win_correct
              /\ e.review[1].asian_correct = d.review[1].asian_correct
              /\ e.review[1].ou_correct = d.review[1].ou_correct
              /\ e.review[1].score_correct = d.review[1].score_correct
              /\ e.review[1].accuracy = d.review[1].accuracy]_vars

C2_Witness == \E d \in predictions : Settled(d)

\* The handicap line of a settled prediction settles as a push: the line is
\* usable and home + line = away.
AsianPush(d) ==
    /\ review_parse_handicap(d.asian_handicap) # NoNum
    /\ 1000 * d.review[1].actual_home_score + Val(review_parse_handicap(d.asian_handicap))
         = 1000 * d.review[1].actual_away_score

\* The total line of a settled prediction settles as a push.
OuPush(d) ==
    /\ d.ou_total # NoNum
    /\ 1000 * (d.review[1].actual_home_score + d.review[1].actual_away_score)
         = Val(d.ou_total)

\* The sub-markets of a settled prediction that count: the result and the
\* exact score always, a line market unless it is a push.
Counted(d) ==
    {"win", "score"} \cup (IF AsianPush(d) THEN {} ELSE {"asian"})
                     \cup (IF OuPush(d) THEN {} ELSE {"ou"})

CorrectOf(d) ==
    {k \in Counted(d) :
        \/ k = "win" /\ d.review[1].win_correct
        \/ k = "asian" /\ d.review[1].asian_correct
        \/ k = "ou" /\ d.review[1].ou_correct
        \/ k = "score" /\ d.review[1].score_correct}

\* C9: when the handicap line or the total line settles as a push, review
\* counts that sub-market neither as correct nor as incorrect: it is left out
\* of total_predictions and of the accuracy percentage.
C9_PushExcluded ==
    \A d \in predictions :
        Settled(d) /\ (AsianPush(d) \/ OuPush(d)) =>
            /\ d.review[1].total_predictions = Cardinality(Counted(d))
            /\ d.review[1].accuracy =
                   (100000 * Cardinality(CorrectOf(d))) \div Cardinality(Counted(d))

C9_Witness == \E d \in predictions : Settled(d) /\ AsianPush(d)

(***************************************************************************)
(* Claims on the combination selector                                      *)
(***************************************************************************)
Recommended == selOut.by # Pending /\ selOut.status = "ok"

\* The candidate pool the answering path built from the upcoming matches.
PoolOf(by) ==
    IF by = "web" THEN web_candidates(selIn.upcoming)
    ELSE script_candidates(selIn.upcoming)

\* The product of the prices of the legs of a returned combination, in units
\* of 100^-n for n legs.
LegsProduct(legs) == total_odds_of(legs, [i \in 1..Len(legs) |-> i])

\* total lies in target_odds x [0.93, 1.17] (total in units of 100^-n).
InBand(total, target_odds, n) ==
    /\ 93 * target_odds * Pow100(n - 1) <= 100 * total
    /\ 100 * total <= 117 * target_odds * Pow100(n - 1)

\* C5: the selector never returns a combination whose price product lies
\* outside target_price x [0.93, 1.17]; when no combination is inside the band
\* it returns null.
C5_WithinBand ==
    Recommended =>
        InBand(LegsProduct(selOut.combo), selOut.target_odds, Len(selOut.combo))

C5_Witness ==
    /\ Recommended /\ selOut.by = "script"
    /\ InBand(LegsProduct(selOut.combo), selOut.target_odds, Len(selOut.combo))

\* The n of the answering path: the clamped request argument, 2 for the scripts.
LegsAsked ==
    IF selOut.by = "web" THEN Max(2, Min(5, selIn.n)) ELSE 2

\* C6: every returned combination has exactly n legs and the match_ids of its
\* legs are pairwise distinct, also when the pool holds several picks of one
\* match.
C6_DistinctLegs ==
    Recommended =>
        /\ Len(selOut.combo) = LegsAsked
        /\ \A i, j \in 1..Len(selOut.combo) :
               i # j => selOut.combo[i].match_id # selOut.combo[j].match_id

C6_Witness ==
    /\ Recommended /\ selOut.by = "web" /\ Len(selOut.combo) = 3
    /\ LET pool == PoolOf("web")
       IN  \E i, j \in 1..Len(pool) :
               /\ i # j /\ pool[i].match_id = pool[j].match_id
               /\ \E k \in 1..3 : selOut.combo[k] = pool[i]

\* The legs at the positions of combo have pairwise distinct match_ids.
LegsDistinct(pool, combo) ==
    \A i, j \in 1..Len(combo) : i # j => pool[combo[i]].match_id # pool[combo[j]].match_id

\* |product - target_odds| of the legs at the positions of combo.
DistanceOf(pool, combo) ==
    Abs(total_odds_of(pool, combo) - selOut.target_odds * Pow100(selOut.n - 1))

\* The combination at position i of the enumeration is the returned one, it is
\* at minimal distance among the eligible ones, and no eligible combination at
\* the same distance comes before it.
MinimalFirstAt(i, eligible, dist) ==
    \A j \in eligible : dist[i] <= dist[j] /\ (dist[j] = dist[i] => i <= j)

\* C7: among all size-n combinations of candidates with distinct match_ids,
\* /api/recommend returns one whose |product(prices) - target_price| is
\* minimal, and of several at that distance the first in enumeration order.
C7_MinimalFirst ==
    selOut.by = "web" /\ selOut.status \in {"ok", "not_found"} =>
        LET pool == PoolOf("web")
            combos == combinations(1, Len(pool), selOut.n)
            eligible == {i \in 1..Len(combos) : LegsDistinct(pool, combos[i])}
            dist == [i \in 1..Len(combos) |-> DistanceOf(pool, combos[i])]
        IN  IF eligible = {} THEN selOut.status = "not_found"
            ELSE /\ selOut.status = "ok"
                 /\ \E i \in eligible :
                        /\ selOut.combo = Selections(pool, combos[i])
                        /\ MinimalFirstAt(i, eligible, dist)

C7_Witness ==
    /\ selOut.by = "web" /\ selOut.status = "ok"
    /\ LET pool == PoolOf("web")
           combos == combinations(1, Len(pool), selOut.n)
           eligible == {i \in 1..Len(combos) : LegsDistinct(pool, combos[i])}
       IN  \E i, j \in eligible :
               /\ selOut.combo = Selections(pool, combos[i])
               /\ i < j
               /\ DistanceOf(pool, combos[j]) = DistanceOf(pool, combos[i])

(***************************************************************************)
(* Claims on settlement                                                    *)
(***************************************************************************)
Calculated == setOut.by = "calc_handicap_result"

\* The upper side is the side that gives the handicap: home when h < 0, away
\* otherwise.  Its adjusted margin is its score minus the other side's score
\* minus the size of the handicap (in thousandths).
UpperMargin ==
    IF setIn.line < 0
    THEN 1000 * setIn.home_score - 1000 * setIn.away_score - Abs(setIn.line)
    ELSE 1000 * setIn.away_score - 1000 * setIn.home_score - Abs(setIn.line)

\* C8: for integer scores and every quarter-ball handicap h from -3.5 to +3.5
\* (home-relative, negative = home favoured) handicap settlement returns
\* exactly one of upper-wins / lower-wins / push: upper-wins iff the upper
\* side's adjusted margin is > 0, lower-wins iff it is < 0, and push iff
\* home + h = away.
C8_HandicapSettlement ==
    Calculated =>
        /\ setOut.result[1] \in {UpperWins, LowerWins, Push}
        /\ (setOut.result[1] = UpperWins) <=> (UpperMargin > 0)
        /\ (setOut.result[1] = LowerWins) <=> (UpperMargin < 0)
        /\ (setOut.result[1] = Push) <=>
               (1000 * setIn.home_score + setIn.line = 1000 * setIn.away_score)

C8_Witness ==
    /\ Calculated /\ setOut.result[1] = Push
    /\ setIn.line = 1000 /\ setIn.home_score = 0 /\ setIn.away_score = 1

Answered == setOut.by # Pending

\* A stored score that is missing or is not an integer.
ScoreUnusable(x) == ~ IsText(x) \/ IntOfText(x) = NoNum

\* The line the answering function reads is missing or cannot be parsed.
LineUnusable ==
    LET line == setIn.line
    IN  CASE setOut.by = "get_asian_result" ->
                 \/ ~ Truthy(line)
                 \/ /\ ~ InMap(analyze_handicap_map, Remove(line, "recv"))
                    /\ ~ \E i \in 1..Len(line) : line[i] \in Digits
          [] setOut.by = "check_leg_result" /\ setOut.opt = "win" -> FALSE
          [] OTHER -> ~ IsText(line) \/ FloatOfText(line) = NoNum

Undetermined == setOut.result \in {NoneT, <<Pending>>, <<"skipped">>}

\* C10: handicap and totals settlement fail closed: when the home score, the
\* away score or the line is missing or unparseable, the result is
\* null / undetermined, never a win, a loss or a push computed from a
\* defaulted value.
C10_FailClosed ==
    Answered /\ (\/ ScoreUnusable(setIn.home_score)
                  \/ ScoreUnusable(setIn.away_score)
                  \/ LineUnusable)
        => Undetermined

C10_Witness ==
    /\ setOut.by = "get_asian_result"
    /\ ScoreUnusable(setIn.home_score) /\ ~ LineUnusable
    /\ Undetermined

(***************************************************************************)
(* Claims on the handicap parsers and the odds normalizers                 *)
(***************************************************************************)
\* What the parser named f returns for the token t.
ParsedBy(f, t) ==
    CASE f = "parse_handicap" -> parse_handicap(t)
      [] f = "_parse_chinese_handicap" -> parse_chinese_handicap(t)
      [] f = "movement.parse_handicap" -> movement_parse_handicap(t)
      [] f = "patterns.parse_handicap" -> patterns_parse_handicap(t)

\* C11: for every non-receiving handicap token T (vocabulary phrase or
\* numeric token) whose parsed value is v, the receiving-marked variant of T
\* parses to exactly -v; in particular the receiving-marked one-ball phrase
\* parses to -1.0.
C11_SignSymmetry ==
    parOut.by \in {"parse_handicap", "_parse_chinese_handicap"} =>
        /\ \A t \in PlainTokens :
               parIn = Recv(t) /\ ParsedBy(parOut.by, t) # NoNum
                   => parOut.value = Num(0 - Val(ParsedBy(parOut.by, t)))
        /\ parIn = Recv(YiQiu) => parOut.value = Num(-1000)

C11_Witness ==
    /\ parOut.by = "parse_handicap"
    /\ parIn = Recv(YiQiu)
    /\ parOut.value = Num(-1000)

\* The phrases of the handicap vocabulary with their quarter-ball values.
Vocabulary == handicap_map \cup chinese_mapping

HasDigit(s) == \E i \in 1..Len(s) : s[i] \in Digits

\* An empty token, or a token outside the vocabulary without any digit.
Unrecognisable(t) ==
    \/ t = <<>>
    \/ IsText(t) /\ ~ InMap(Vocabulary, Remove(t, "recv")) /\ ~ HasDigit(t)

\* C12: the handicap parser returns null, never 0 or any other number, for
\* an empty token and for any token that is not in the vocabulary and
\* contains no digits.
C12_NullForUnrecognisable ==
    /\ parOut.by \in {"parse_handicap", "_parse_chinese_handicap",
                      "movement.parse_handicap"}
    /\ Unrecognisable(parIn)
    => parOut.value = NoNum

C12_Witness ==
    /\ parOut.by = "parse_handicap"
    /\ parIn = <<"ball">>
    /\ parOut.value = NoNum

\* C13: the handicap parser maps every vocabulary phrase for each
\* quarter-ball value from 0 up to 3.5 to that value; in particular the
\* ball-and-a-half phrase parses to 1.5 and no phrase for 2.75 or more
\* parses to null.
C13_VocabularyCovered ==
    /\ parOut.by \in {"parse_handicap", "patterns.parse_handicap"}
    /\ InMap(Vocabulary, parIn)
    => parOut.value = Num(Lookup(Vocabulary, parIn))

C13_Witness ==
    /\ parOut.by = "patterns.parse_handicap"
    /\ parIn = QiuBan
    /\ parOut.value = Num(1500)

\* C14: every non-null value returned by the handicap parser is a multiple
\* of 0.25 in magnitude, for vocabulary phrases and for tokens handled by
\* the numeric fallback alike.
C14_QuarterMultiple ==
    /\ parOut.by \in {"parse_handicap", "patterns.parse_handicap"}
    /\ parOut.value # NoNum
    => Abs(Val(parOut.value)) % 250 = 0

C14_Witness ==
    /\ parOut.by = "parse_handicap"
    /\ parIn = Recv(<<"2", ".", "7", "5">>)
    /\ parOut.value = Num(-2750)

\* A text that writes a decimal number: an optional sign, digits and at most
\* one point.
NumericText(s) ==
    /\ Truthy(s)
    /\ LET body == IF s[1] \in {"-", "+"} THEN Tail(s) ELSE s
       IN  /\ HasDigit(body)
           /\ \A i \in 1..Len(body) : body[i] \in Digits \cup {"."}
           /\ Cardinality({i \in 1..Len(body) : body[i] = "."}) <= 1

C16_PricePositive ==
    /\ parOut.by \in {"safe_float", "patterns.safe_float"}
    /\ parOut.value # NoNum
    => Val(parOut.value) > 0

C16_Witness ==
    /\ parOut.by = "safe_float"
    /\ parIn = <<"1", ".", "9", "5">>
    /\ parOut.value = Num(1950)

\* The text without its direction arrows.
ArrowFree(s) == Remove(Remove(s, "up"), "down")

\* C17: the odds normalizer strips a directional arrow glyph adjacent to a
\* price before conversion, so a raw value such as 1.95 followed by an arrow
\* normalizes to the number 1.95 and not to null.
C17_ArrowStripped ==
    /\ parOut.by \in {"safe_float", "web.safe_float"}
    /\ IsText(parIn) /\ ArrowFree(parIn) # parIn
    /\ NumericText(ArrowFree(parIn))
    => parOut.value = FloatOfText(ArrowFree(parIn))

C17_Witness ==
    /\ parOut.by = "web.safe_float"
    /\ parIn = <<"1", ".", "9", "5", "up">>

(***************************************************************************)
(* Claims on the pattern scorers                                           *)
(***************************************************************************)
Scored == scOut.by = "get_daily_predictions"
PatternScored == scOut.by = "predict_single_match"

\* C18: for every match input (any combination of present, null and extreme
\* odds fields), each confidence the pattern scorer returns for the
\* match-outcome, handicap and total-goals markets lies between 0 and 90
\* inclusive.
C18_ConfidenceBounded ==
    /\ Scored => /\ scOut.result_conf \in 0..90
                 /\ scOut.hi_conf \in 0..90
                 /\ scOut.goal_conf \in 0..90
    /\ PatternScored => scOut.confidence \in 0..90

\* The cap of 90 decides the confidence: the winning score is 6 with both
\* other scores at 0.
C18_Witness ==
    /\ Scored
    /\ Last(scOut.result_tallies).home = 6
    /\ Last(scOut.result_tallies).draw = 0
    /\ Last(scOut.result_tallies).away = 0
    /\ scOut.result_conf = 90

\* No rule of the market fired: the scores and the reason list never moved.
Silent(tallies) == \A i \in 1..Len(tallies) : tallies[i] = Tally0

\* C19: when no scoring rule fires for a market, the pattern scorer marks
\* that market's outcome as undetermined with a confidence below 50; it never
\* picks a concrete outcome by tie-break among all-zero scores.
C19_SilentUndetermined ==
    /\ Scored /\ Silent(scOut.result_tallies)
           => /\ scOut.result_pred \notin {"home win", "draw", "away win"}
              /\ scOut.result_conf < 50
    /\ Scored /\ Silent(scOut.hi_tallies)
           => /\ scOut.hi_pred \notin {"let home", "let draw", "let away"}
              /\ scOut.hi_conf < 50
    /\ PatternScored /\ Silent(scOut.tallies)
           => /\ scOut.result = HardToTell
              /\ scOut.confidence < 50

C19_Witness ==
    /\ PatternScored
    /\ scIn.match = BareMatch
    /\ Silent(scOut.tallies)
    /\ scOut.result = HardToTell
    /\ scOut.confidence = 40

ScoresOf(t) == <<t.home, t.draw, t.away>>

\* Every change of a score between two rules comes with a longer reason list.
Reasoned(tallies) ==
    \A i \in 1..(Len(tallies) - 1) :
        ScoresOf(tallies[i + 1]) # ScoresOf(tallies[i])
            => Len(tallies[i + 1].reasons) > Len(tallies[i].reasons)

\* C20: every scoring rule that fires, that is every rule that adds points to
\* or subtracts points from a candidate outcome's score, appends a reason to
\* that market's reason list, so the score of an outcome never changes
\* without the reason list growing.
C20_ReasonedScores ==
    Scored => Reasoned(scOut.result_tallies) /\ Reasoned(scOut.hi_tallies)

C20_Witness ==
    /\ Scored
    /\ \E i \in 1..(Len(scOut.result_tallies) - 1) :
           /\ ScoresOf(scOut.result_tallies[i + 1]) # ScoresOf(scOut.result_tallies[i])
           /\ Len(scOut.result_tallies[i + 1].reasons)
                  > Len(scOut.result_tallies[i].reasons)
    /\ Reasoned(scOut.result_tallies)

\* The parsed fields of the match handed to the scorer.
WebFields == web_fields(scIn.match)
PatternFields == pattern_fields(scIn.match)

\* The current home price is there and in a range of the home-price rule.
HomePriceRuleDue ==
    /\ NumTruthy(WebFields.euro_home_cur)
    /\ \/ Val(WebFields.euro_home_cur) < 2000
       \/ Val(WebFields.euro_home_cur) > 2600

PatternHomePriceRuleDue ==
    /\ NumTruthy(PatternFields.euro_win)
    /\ Val(PatternFields.euro_win) < 2200

\* C21: a null odds field disables only the rules that read that field: a
\* rule whose own inputs are all present still fires when some other odds
\* field of the match is null (the home-price rule still fires when only the
\* draw price is null), and scoring never fails as a whole.
C21_NullSkipsOnlyItsRules ==
    /\ Scored /\ HomePriceRuleDue
           => scOut.result_tallies[2] # scOut.result_tallies[1]
    /\ PatternScored /\ PatternHomePriceRuleDue
           => scOut.tallies[2] # scOut.tallies[1]

\* The home-price rule fires although the initial prices are null.
C21_Witness ==
    /\ Scored /\ HomePriceRuleDue
    /\ scIn.match.euro_initial_win = NoneT
    /\ scIn.match.euro_initial_lose = NoneT
    /\ scOut.result_tallies[2].home = 4

\* The highest and the second highest of the three scores of a tally.
TopScore(t) == Max(t.home, Max(t.draw, t.away))
LowScore(t) == Min(t.home, Min(t.draw, t.away))
RunnerUp(t) == t.home + t.draw + t.away - TopScore(t) - LowScore(t)

\* min(90, 50 + 8 * (winning score - runner-up score) + 3 * winning score).
GapConfidence(t) == Min(90, 50 + 8 * (TopScore(t) - RunnerUp(t)) + 3 * TopScore(t))

ScoreOfPick(t, pick) ==
    IF pick \in {"home win", "let home"} THEN t.home
    ELSE IF pick \in {"draw", "let draw"} THEN t.draw
    ELSE t.away

\* C22: in each scored market the selected outcome is one with the highest
\* point score among the candidates, and its confidence equals
\* min(90, 50 + 8 * (winning score - runner-up score) + 3 * winning score),
\* with no other adjustment.
C22_ConfidenceFormula ==
    Scored =>
        /\ ScoreOfPick(Last(scOut.result_tallies), scOut.result_pred)
               = TopScore(Last(scOut.result_tallies))
        /\ scOut.result_conf = GapConfidence(Last(scOut.result_tallies))
        /\ HiScored(WebFields) =>
               /\ ScoreOfPick(Last(scOut.hi_tallies), scOut.hi_pred)
                      = TopScore(Last(scOut.hi_tallies))
               /\ scOut.hi_conf = GapConfidence(Last(scOut.hi_tallies))

C22_Witness ==
    /\ Scored /\ HiScored(WebFields)
    /\ scOut.hi_conf = GapConfidence(Last(scOut.hi_tallies))
    /\ scOut.hi_conf < 90
    /\ scOut.result_conf = GapConfidence(Last(scOut.result_tallies))

(***************************************************************************)
(* Claims on the life cycle of a prediction                                *)
(***************************************************************************)
\* The stored document d carries every key of prediction_data.
Carries(d, prediction_data) ==
    /\ d.match_id = prediction_data.match_id
    /\ d.win_prediction = prediction_data.win_prediction
    /\ d.asian_prediction = prediction_data.asian_prediction
    /\ d.asian_handicap = prediction_data.asian_handicap
    /\ d.ou_prediction = prediction_data.ou_prediction
    /\ d.ou_total = prediction_data.ou_total
    /\ d.predicted_home_score = prediction_data.predicted_home_score
    /\ d.predicted_away_score = prediction_data.predicted_away_score
    /\ d.is_reviewed = FALSE

\* C23: after any sequence of save_prediction calls the predictions
\* collection holds at most one document per match_id, and after each save
\* that document carries the contents of the save just made.
C23_OnePredictionPerMatch ==
    [][/\ \A mid \in ReviewMatchIds : Cardinality(PredsOf(predictions', mid)) <= 1
       /\ \A mid \in ReviewMatchIds, picks \in EnginePicks :
              PredictMatch(mid, picks) =>
                  \A d \in PredsOf(predictions', mid) :
                      Carries(d, predict_match(mid, matches[mid], picks))]_vars

\* A prediction that was reviewed and then saved again: the second save met a
\* stored document.
C23_Witness ==
    \E d \in predictions :
        /\ d.review # <<>> /\ d.is_reviewed = FALSE
        /\ Cardinality(PredsOf(predictions, d.match_id)) = 1

\* The match of mid is finished and both of its scores read as integers.
Reviewable(ms, mid) ==
    /\ Has(ms, mid)
    /\ ms[mid].status = 2
    /\ IntOfText(Get(ms[mid].home_score)) # NoNum
    /\ IntOfText(Get(ms[mid].away_score)) # NoNum

\* C24: review_match (alone or from review_all_finished_matches) writes the
\* settlement of a prediction only when the match has status 2 and both
\* scores parse as integers; in every other case the predictions are left
\* as they were.
C24_ReviewOnlyWhenFinished ==
    [][/\ \A d \in predictions' \ predictions :
              d.is_reviewed => Reviewable(matches, d.match_id)
       /\ \A mid \in ReviewMatchIds :
              ReviewMatch(mid) /\ ~ Reviewable(matches, mid) =>
                  predictions' = predictions
       /\ ReviewAllFinished /\ predictions' # predictions =>
              \E mid \in ReviewMatchIds : Reviewable(matches, mid)]_vars

\* A settled prediction of a finished match, and an unsettled one whose
\* match is not finished although its scores read as integers.
C24_Witness ==
    \E d \in predictions :
        /\ Settled(d)
        /\ Reviewable(matches, d.match_id)
        /\ d.review[1].actual_home_score = Val(IntOfText(Get(matches[d.match_id].home_score)))

\* C25: a prediction is stored only for a match whose status is 0
\* (NOT_STARTED) when the prediction is made, whichever entry point makes it.
C25_PredictOnlyNotStarted ==
    [][\A mid \in ReviewMatchIds, picks \in EnginePicks :
          PredictMatch(mid, picks) \/ DailyPredictionTask(mid, picks) =>
              matches[mid].status = 0]_vars

\* A finished, settled match whose prediction has been stored anew.
C25_Witness ==
    \E d \in predictions :
        /\ d.review # <<>> /\ d.is_reviewed = FALSE
        /\ matches[d.match_id].status = 2
        /\ \E picks \in EnginePicks :
              Carries(d, predict_match(d.match_id, matches[d.match_id], picks))

(***************************************************************************)
(* Claims on the writes of save_odds and save_match                        *)
(***************************************************************************)
\* C26: save_odds, or save_match, applied a second time with the input it was
\* just applied with leaves the match record, the odds document and the
\* label as the first application left them (timestamps are not modelled).
C26_SaveTwiceIsSaveOnce ==
    [][/\ \A mid \in OddsMatchIds, od \in OddsData :
              SaveOdds(mid, od) =>
                  /\ update_match_odds(matches', mid, od) = matches'
                  /\ save_odds_doc(odds', mid, od) = odds'
       /\ \A mid \in OddsMatchIds, b \in BasicData :
              SaveMatch(mid, b) =>
                  save_match(matches', mid, BasicMatchData(b)) = matches']_vars

\* save_odds has stored a label on an existing match, and saving the stored
\* odds_data again would change nothing.
C26_Witness ==
    \E mid \in DOMAIN matches :
        /\ Has(odds, mid)
        /\ Len(odds[mid].asian_handicap) > 0
        /\ matches[mid].asian_movement_label = LineUpPriceDown
        /\ AsianOf(matches[mid]) = AsianUpdateFields(odds[mid])
        /\ update_match_odds(matches, mid, odds[mid]) = matches

OuOf(doc) ==
    [ou_initial_total |-> doc.ou_initial_total, ou_current_total |-> doc.ou_current_total]

\* C30: save_odds changes, on the match record, only the flattened fields of
\* the markets odds_data holds and the label: status and scores keep their
\* values, the fields of an empty market keep theirs, and no match record is
\* created.
C30_SaveOddsFrame ==
    [][\A mid \in OddsMatchIds, od \in OddsData :
          SaveOdds(mid, od) =>
              /\ DOMAIN matches' = DOMAIN matches
              /\ \A m \in DOMAIN matches :
                     /\ matches'[m].status = matches[m].status
                     /\ matches'[m].home_score = matches[m].home_score
                     /\ matches'[m].away_score = matches[m].away_score
                     /\ m # mid => matches'[m] = matches[m]
                     /\ Len(od.asian_handicap) = 0 =>
                            /\ AsianOf(matches'[m]) = AsianOf(matches[m])
                            /\ matches'[m].asian_movement_label =
                                   matches[m].asian_movement_label
                     /\ Len(od.over_under) = 0 => OuOf(matches'[m]) = OuOf(matches[m])]_vars

\* The last save_odds held only the over/under market: the match record has
\* the totals of that call and still the asian fields and label of an
\* earlier one.
C30_Witness ==
    \E mid \in DOMAIN matches :
        /\ Has(odds, mid)
        /\ Len(odds[mid].asian_handicap) = 0
        /\ Len(odds[mid].over_under) > 0
        /\ OuOf(matches[mid]) = OuUpdateFields(odds[mid])
        /\ matches[mid].asian_current_handicap = BanQiu
        /\ matches[mid].asian_movement_label = LineUpPriceDown

(***************************************************************************)
(* Claims on concurrent save_odds calls                                    *)
(***************************************************************************)
\* The odds document and the match record of mid are those of one call with
\* odds_data.
FromCall(mid, odds_data) ==
    /\ Has(odds, mid) /\ odds[mid] = odds_data
    /\ Has(matches, mid)
    /\ AsianOf(matches[mid]) = AsianUpdateFields(odds_data)
    /\ OuOf(matches[mid]) = OuUpdateFields(odds_data)
    /\ matches[mid].asian_movement_label =
           calc_asian_movement_label(AsianUpdateFields(odds_data))

BothCompleted(mid) == \A w \in Writers : saving[w].pc = "done" /\ saving[w].match_id = mid

\* C27: when two save_odds calls for one match_id have both completed, the
\* odds document, the flattened fields and the label of the match record all
\* come from the same one of the two calls.
C27_OneWriterWins ==
    \A mid \in RaceMatchIds :
        BothCompleted(mid) => \E w \in Writers : FromCall(mid, saving[w].odds_data)

\* Both calls have completed; the odds document is the manual call's and the
\* match record the scheduled call's.
C27_Witness ==
    \E mid \in RaceMatchIds :
        /\ BothCompleted(mid)
        /\ odds[mid] = saving["manual"].odds_data
        /\ AsianOf(matches[mid]) = AsianUpdateFields(saving["scheduled"].odds_data)
        /\ AsianOf(matches[mid]) # AsianUpdateFields(saving["manual"].odds_data)
        /\ matches[mid].asian_movement_label =
               calc_asian_movement_label(AsianUpdateFields(saving["scheduled"].odds_data))

(***************************************************************************)
(* Claims relating the two handicap settlements                            *)
(***************************************************************************)
\* get_asian_result has settled integer scores on a line both parsers read.
BothSettle ==
    /\ setOut.by = "get_asian_result"
    /\ IsText(Get(setIn.home_score)) /\ IsText(Get(setIn.away_score))
    /\ IntOfText(Get(setIn.home_score)) # NoNum
    /\ IntOfText(Get(setIn.away_score)) # NoNum
    /\ IsText(Get(setIn.line))
    /\ review_parse_handicap(Get(setIn.line)) # NoNum
    /\ analyze_parse_handicap(Get(setIn.line)) # NoNum

\* _check_asian_handicap on the same scores and line, for a prediction of side.
ReviewSaysWinner(side) ==
    check_asian_handicap(Val(IntOfText(Get(setIn.home_score))),
                         Val(IntOfText(Get(setIn.away_score))), side, Get(setIn.line))

\* C28: on every integer score pair and every handicap token both read,
\* _check_asian_handicap and get_asian_result name the same winning side
\* and find a push on the same inputs.
C28_OneSignConvention ==
    BothSettle =>
        /\ setOut.result = <<"home">> <=> ReviewSaysWinner("home")
        /\ setOut.result = <<"away">> <=> ReviewSaysWinner("away")
        /\ setOut.result = <<Push>> <=>
               ~ ReviewSaysWinner("home") /\ ~ ReviewSaysWinner("away")

\* 2-1 on the line 'one ball': a push for get_asian_result, a home win for
\* _check_asian_handicap.
C28_Witness ==
    /\ BothSettle
    /\ setIn.home_score = <<"2">> /\ setIn.away_score = <<"1">>
    /\ setIn.line = YiQiu
    /\ setOut.result = <<Push>>
    /\ ReviewSaysWinner("home")

(***************************************************************************)
(* Claims relating the two label calculators                               *)
(***************************************************************************)
\* C29: for the same four fields calc_label of update_labels.py returns what
\* _calc_asian_movement_label returns, null included.
C29_SameLabel ==
    clsOut # Pending =>
        /\ clsOut = calc_label(clsIn)
        /\ clsOut = calc_asian_movement_label(clsIn)

\* A line that moved from the giving to the receiving side, labelled as a
\* falling line by both.
C29_Witness ==
    /\ clsIn.asian_initial_handicap = BanQiu
    /\ clsIn.asian_current_handicap = Recv(BanQiu)
    /\ clsOut = LineDownPriceUp
    /\ calc_label(clsIn) = LineDownPriceUp
    /\ calc_asian_movement_label(clsIn) = LineDownPriceUp

====
